---- MODULE Spec2Model ----
(***************************************************************************)
(* Rules engine of the Dablo board game (dablo/core): board graph, piece   *)
(* model, move generation and validation, and the game state machine.      *)
(*                                                                         *)
(* Coordinates.  The source uses float pairs (row, col) whose components   *)
(* are multiples of 0.5.  The model stores every coordinate doubled, as an *)
(* integer: the source's (1.5, 0.5) is <<3, 1>> here.  A primary node has  *)
(* two even components, a secondary node two odd ones.                     *)
(*                                                                         *)
(* Optional values.  Python's None is 0 for a Player (Player values are 1  *)
(* and -1, so Python truthiness is "# 0"), "none" for a reason, and the    *)
(* empty tuple <<>> for a position or an optional piece.                   *)
(***************************************************************************)
EXTENDS Integers, Sequences, FiniteSets, TLC

(***************************************************************************)
(* Bounds of the model and configuration values.                           *)
(***************************************************************************)
\* config.board_rows and config.board_cols: the smallest board the
\* configuration accepts.
board_rows == 3
board_cols == 3
\* config.move_limit, scaled down so that plays reach it.
MoveLimit == 3

(***************************************************************************)
(* pieces.py, player.py                                                    *)
(***************************************************************************)
EMPTY == 0
P1_WARRIOR == 1
P1_PRINCE == 2
P1_KING == 3
P2_WARRIOR == 0 - 1
P2_PRINCE == 0 - 2
P2_KING == 0 - 3
PieceType == {EMPTY, P1_WARRIOR, P1_PRINCE, P1_KING, P2_WARRIOR, P2_PRINCE, P2_KING}

P1 == 1
P2 == 0 - 1
Player == {P1, P2}
NoPlayer == 0
NoPos == <<>>

Abs(x) == IF x < 0 THEN 0 - x ELSE x

opponent(p) == IF p = P1 THEN P2 ELSE P1

\* can_capture requiring a strictly higher rank.
can_capture_higher_rank_only(attacker, target) ==
    IF target = EMPTY \/ attacker = EMPTY THEN FALSE
    ELSE IF (attacker > 0) = (target > 0) THEN FALSE
    ELSE Abs(attacker) > Abs(target)

can_capture(attacker, target) ==
    IF target = EMPTY \/ attacker = EMPTY THEN FALSE
    ELSE IF (attacker > 0) = (target > 0) THEN FALSE
    ELSE Abs(attacker) >= Abs(target)

(***************************************************************************)
(* rules.py: WinReason, Move, MovementValidator                            *)
(***************************************************************************)
KING_CAPTURE == "king_capture"
LONE_KING == "lone_king"
MOVE_LIMIT == "move_limit"
STALEMATE == "stalemate"
KINGS_ONLY_DRAW == "kings_only_draw"
NoReason == "none"
WinReason == {KING_CAPTURE, LONE_KING, MOVE_LIMIT, STALEMATE, KINGS_ONLY_DRAW}

Move(f, t, c) == [from_pos |-> f, to_pos |-> t, capture_pos |-> c]

\* is_capture that reports every move as a capture.
is_capture_always(m) == TRUE

\* is_capture that never reports a capture.
is_capture_never(m) == FALSE

is_capture(m) == m.capture_pos # NoPos

\* is_forward_move that also accepts a step along the row.
is_forward_move_or_level(from_pos, to_pos, is_player1) ==
    LET row_diff == to_pos[1] - from_pos[1]
    IN  IF is_player1 THEN row_diff <= 0 ELSE row_diff >= 0

is_forward_move(from_pos, to_pos, is_player1) ==
    LET row_diff == to_pos[1] - from_pos[1]
    IN  IF is_player1 THEN row_diff < 0 ELSE row_diff > 0

\* calculate_capture_landing taking the half-step branch for every pair.
calculate_capture_landing_half_step(from_pos, capture_pos) ==
    LET row_diff == capture_pos[1] - from_pos[1]
        col_diff == capture_pos[2] - from_pos[2]
    IN  <<capture_pos[1] + (IF row_diff > 0 THEN 1 ELSE 0 - 1),
          capture_pos[2] + (IF col_diff > 0 THEN 1 ELSE 0 - 1)>>

calculate_capture_landing(from_pos, capture_pos) ==
    LET row_diff == capture_pos[1] - from_pos[1]
        col_diff == capture_pos[2] - from_pos[2]
    IN  IF <<Abs(row_diff), Abs(col_diff)>> \in {<<1, 3>>, <<3, 1>>}
        THEN <<capture_pos[1] + (IF row_diff > 0 THEN 1 ELSE 0 - 1),
               capture_pos[2] + (IF col_diff > 0 THEN 1 ELSE 0 - 1)>>
        ELSE <<capture_pos[1] + row_diff, capture_pos[2] + col_diff>>

(***************************************************************************)
(* game.py: the board graph                                                *)
(***************************************************************************)
\* all_nodes with a secondary position added for every primary one.
AllNodes_secondary_everywhere(rows, cols) ==
    {<<2 * r, 2 * c>> : r \in 0..(rows - 1), c \in 0..(cols - 1)}
    \cup {<<2 * r + 1, 2 * c + 1>> : r \in 0..(rows - 1), c \in 0..(cols - 1)}

AllNodes(rows, cols) ==
    {<<2 * r, 2 * c>> : r \in 0..(rows - 1), c \in 0..(cols - 1)}
    \cup {<<2 * r + 1, 2 * c + 1>> : r \in 0..(rows - 2), c \in 0..(cols - 2)}

IsPrimary(pos) == pos[1] % 2 = 0 /\ pos[2] % 2 = 0

\* potential_neighbors giving a secondary node no neighbors.
PotentialNeighbors_primary_only(pos) ==
    LET r == pos[1]
        c == pos[2]
    IN  IF IsPrimary(pos)
        THEN << <<r - 2, c>>, <<r + 2, c>>, <<r, c - 2>>, <<r, c + 2>>,
                <<r - 1, c - 1>>, <<r - 1, c + 1>>, <<r + 1, c - 1>>, <<r + 1, c + 1>> >>
        ELSE << >>

PotentialNeighbors(pos) ==
    LET r == pos[1]
        c == pos[2]
    IN  IF IsPrimary(pos)
        THEN << <<r - 2, c>>, <<r + 2, c>>, <<r, c - 2>>, <<r, c + 2>>,
                <<r - 1, c - 1>>, <<r - 1, c + 1>>, <<r + 1, c - 1>>, <<r + 1, c + 1>> >>
        ELSE << <<r - 1, c - 1>>, <<r - 1, c + 1>>, <<r + 1, c - 1>>, <<r + 1, c + 1>> >>

InNodes(rows, cols, n) == n \in AllNodes(rows, cols)

\* The graph: every node mapped to the list of its neighbors.
create_board_graph(rows, cols) ==
    [pos \in AllNodes(rows, cols) |->
        SelectSeq(PotentialNeighbors(pos), LAMBDA n : InNodes(rows, cols, n))]

nodes == create_board_graph(board_rows, board_cols)

Range(s) == {s[i] : i \in DOMAIN s}

\* self.nodes.get(pos, [])
NodesGet(pos) == IF pos \in DOMAIN nodes THEN Range(nodes[pos]) ELSE {}

is_adjacent(pos1, pos2) == pos2 \in NodesGet(pos1)

(***************************************************************************)
(* rules.py: GameRules                                                     *)
(***************************************************************************)
\* board_state.get(pos) == PieceType.EMPTY
IsEmptyAt(bs, pos) == pos \in DOMAIN bs /\ bs[pos] = EMPTY

\* board_state.get(pos, PieceType.EMPTY)
PieceAt(bs, pos) == IF pos \in DOMAIN bs THEN bs[pos] ELSE EMPTY

\* is_valid_regular_move without the forward test.
is_valid_regular_move_any_direction(from_pos, to_pos, piece, bs) ==
    IF ~IsEmptyAt(bs, to_pos) THEN FALSE
    ELSE IF ~is_adjacent(from_pos, to_pos) THEN FALSE
    ELSE TRUE

is_valid_regular_move(from_pos, to_pos, piece, bs) ==
    IF ~IsEmptyAt(bs, to_pos) THEN FALSE
    ELSE IF ~is_adjacent(from_pos, to_pos) THEN FALSE
    ELSE IF ~is_forward_move(from_pos, to_pos, piece > 0) THEN FALSE
    ELSE TRUE

is_valid_capture_move(from_pos, capture_pos, landing_pos, attacker, target, bs) ==
    IF ~IsEmptyAt(bs, landing_pos) THEN FALSE
    ELSE IF ~can_capture(attacker, target) THEN FALSE
    ELSE IF ~is_adjacent(from_pos, capture_pos) THEN FALSE
    ELSE IF landing_pos # calculate_capture_landing(from_pos, capture_pos) THEN FALSE
    ELSE TRUE

\* check_win_condition awarding a lone-king game to the lone king's owner.
check_win_lone_king_swapped(p1_pieces_count, p2_pieces_count, p1_king_exists, p2_king_exists, mc, move_limit, has_valid_moves, cur) ==
    IF ~p1_king_exists THEN <<P2, KING_CAPTURE>>
    ELSE IF ~p2_king_exists THEN <<P1, KING_CAPTURE>>
    ELSE IF p1_pieces_count = 1 /\ p2_pieces_count = 1 THEN <<NoPlayer, KINGS_ONLY_DRAW>>
    ELSE IF p1_pieces_count = 1 /\ p2_pieces_count > 1 THEN <<P1, LONE_KING>>
    ELSE IF p2_pieces_count = 1 /\ p1_pieces_count > 1 THEN <<P2, LONE_KING>>
    ELSE IF mc >= move_limit THEN <<NoPlayer, MOVE_LIMIT>>
    ELSE IF ~has_valid_moves THEN <<opponent(cur), STALEMATE>>
    ELSE <<NoPlayer, NoReason>>

\* check_win_condition awarding a stalemate to the player who cannot move.
check_win_stalemate_swapped(p1_pieces_count, p2_pieces_count, p1_king_exists, p2_king_exists, mc, move_limit, has_valid_moves, cur) ==
    IF ~p1_king_exists THEN <<P2, KING_CAPTURE>>
    ELSE IF ~p2_king_exists THEN <<P1, KING_CAPTURE>>
    ELSE IF p1_pieces_count = 1 /\ p2_pieces_count = 1 THEN <<NoPlayer, KINGS_ONLY_DRAW>>
    ELSE IF p1_pieces_count = 1 /\ p2_pieces_count > 1 THEN <<P2, LONE_KING>>
    ELSE IF p2_pieces_count = 1 /\ p1_pieces_count > 1 THEN <<P1, LONE_KING>>
    ELSE IF mc >= move_limit THEN <<NoPlayer, MOVE_LIMIT>>
    ELSE IF ~has_valid_moves THEN <<cur, STALEMATE>>
    ELSE <<NoPlayer, NoReason>>

\* check_win_condition testing the move limit before the lone-king rule.
check_win_limit_first(p1_pieces_count, p2_pieces_count, p1_king_exists, p2_king_exists, mc, move_limit, has_valid_moves, cur) ==
    IF ~p1_king_exists THEN <<P2, KING_CAPTURE>>
    ELSE IF ~p2_king_exists THEN <<P1, KING_CAPTURE>>
    ELSE IF p1_pieces_count = 1 /\ p2_pieces_count = 1 THEN <<NoPlayer, KINGS_ONLY_DRAW>>
    ELSE IF mc >= move_limit THEN <<NoPlayer, MOVE_LIMIT>>
    ELSE IF p1_pieces_count = 1 /\ p2_pieces_count > 1 THEN <<P2, LONE_KING>>
    ELSE IF p2_pieces_count = 1 /\ p1_pieces_count > 1 THEN <<P1, LONE_KING>>
    ELSE IF ~has_valid_moves THEN <<opponent(cur), STALEMATE>>
    ELSE <<NoPlayer, NoReason>>

check_win_condition(p1_pieces_count, p2_pieces_count, p1_king_exists, p2_king_exists, mc, move_limit, has_valid_moves, cur) ==
    IF ~p1_king_exists THEN <<P2, KING_CAPTURE>>
    ELSE IF ~p2_king_exists THEN <<P1, KING_CAPTURE>>
    ELSE IF p1_pieces_count = 1 /\ p2_pieces_count = 1 THEN <<NoPlayer, KINGS_ONLY_DRAW>>
    ELSE IF p1_pieces_count = 1 /\ p2_pieces_count > 1 THEN <<P2, LONE_KING>>
    ELSE IF p2_pieces_count = 1 /\ p1_pieces_count > 1 THEN <<P1, LONE_KING>>
    ELSE IF mc >= move_limit THEN <<NoPlayer, MOVE_LIMIT>>
    ELSE IF ~has_valid_moves THEN <<opponent(cur), STALEMATE>>
    ELSE <<NoPlayer, NoReason>>

(***************************************************************************)
(* game.py: board contents.  A board b is the record of board_state and    *)
(* the two piece sets, which add_piece and remove_piece change together.   *)
(***************************************************************************)
Board(bs, s1, s2) == [board_state |-> bs, p1_pieces |-> s1, p2_pieces |-> s2]

add_piece(b, pos, piece_type) ==
    IF pos \notin DOMAIN b.board_state THEN b
    ELSE IF b.board_state[pos] # EMPTY THEN b
    ELSE Board([b.board_state EXCEPT ![pos] = piece_type],
               IF piece_type > 0 THEN b.p1_pieces \cup {pos} ELSE b.p1_pieces,
               IF piece_type < 0 THEN b.p2_pieces \cup {pos} ELSE b.p2_pieces)

\* remove_piece that empties the square but keeps the piece sets as they were.
remove_piece_untracked(b, pos) ==
    Board([p \in DOMAIN b.board_state \cup {pos} |->
              IF p = pos THEN EMPTY ELSE b.board_state[p]],
          b.p1_pieces, b.p2_pieces)

\* remove_piece that leaves the square as it was.
remove_piece_leaving(b, pos) == b

remove_piece(b, pos) ==
    LET removed_piece == PieceAt(b.board_state, pos)
    IN  Board([p \in DOMAIN b.board_state \cup {pos} |->
                  IF p = pos THEN EMPTY ELSE b.board_state[p]],
              IF removed_piece > 0 THEN b.p1_pieces \ {pos} ELSE b.p1_pieces,
              IF removed_piece < 0 THEN b.p2_pieces \ {pos} ELSE b.p2_pieces)

get_valid_moves(bs, cur, pos) ==
    LET piece == PieceAt(bs, pos)
    IN  IF pos \notin DOMAIN bs \/ piece = EMPTY \/ (piece > 0) # (cur > 0) THEN {}
        ELSE {Move(pos, n, NoPos) : n \in
                 {n \in NodesGet(pos) :
                     /\ PieceAt(bs, n) = EMPTY
                     /\ is_valid_regular_move(pos, n, piece, bs)}}
             \cup
             {Move(pos, calculate_capture_landing(pos, n), n) : n \in
                 {n \in NodesGet(pos) :
                     /\ PieceAt(bs, n) # EMPTY
                     /\ piece * PieceAt(bs, n) < 0
                     /\ is_valid_capture_move(pos, n, calculate_capture_landing(pos, n),
                                              piece, PieceAt(bs, n), bs)}}

\* No move: the entry of a neighbor that yields none.
NoMove == Move(NoPos, NoPos, NoPos)

\* get_valid_moves as the list the source builds, one neighbor after the
\* other in the order of the graph's neighbor list.
get_valid_moves_list(bs, cur, pos) ==
    LET piece == PieceAt(bs, pos)
        neighbors == IF pos \in DOMAIN nodes THEN nodes[pos] ELSE <<>>
        ForNeighbor(n) ==
            LET target_piece == PieceAt(bs, n)
                landing_pos == calculate_capture_landing(pos, n)
            IN  IF target_piece = EMPTY
                THEN IF is_valid_regular_move(pos, n, piece, bs)
                     THEN Move(pos, n, NoPos) ELSE NoMove
                ELSE IF piece * target_piece < 0
                        /\ is_valid_capture_move(pos, n, landing_pos, piece, target_piece, bs)
                     THEN Move(pos, landing_pos, n) ELSE NoMove
    IN  IF pos \notin DOMAIN bs \/ piece = EMPTY \/ (piece > 0) # (cur > 0) THEN <<>>
        ELSE SelectSeq([i \in 1..Len(neighbors) |-> ForNeighbor(neighbors[i])],
                       LAMBDA m : m # NoMove)

get_all_valid_moves(b, cur, chain, chain_pos) ==
    IF chain /\ chain_pos # NoPos THEN get_valid_moves(b.board_state, cur, chain_pos)
    ELSE UNION {get_valid_moves(b.board_state, cur, pos) :
                   pos \in (IF cur = P1 THEN b.p1_pieces ELSE b.p2_pieces)}

get_king_position(b, player) ==
    LET king_type == IF player = P1 THEN P1_KING ELSE P2_KING
        player_pieces == IF player = P1 THEN b.p1_pieces ELSE b.p2_pieces
        found == {pos \in player_pieces : b.board_state[pos] = king_type}
    IN  IF found = {} THEN NoPos ELSE CHOOSE pos \in found : TRUE

(***************************************************************************)
(* game.py: the game object                                                *)
(***************************************************************************)
VARIABLES
    board_state,          \* position -> piece
    p1_pieces,            \* positions tracked as holding a Player-1 piece
    p2_pieces,            \* positions tracked as holding a Player-2 piece
    current_player,
    game_over,
    winner,               \* a Player, or NoPlayer
    win_reason,           \* a reason, or NoReason
    capture_sequence,
    capturing_piece,      \* a position, or NoPos
    move_count,
    last_captured_piece,  \* <<>> or <<piece>>
    ret,                  \* the last call on the game and what it returned
    probe,                \* arguments and result of a rule function evaluated on its own
    edits,                \* number of board-editing calls made so far
    npc,                  \* the SmartNPCPlayer instance, or NoNpc
    game_history          \* the front end's saved states, oldest first

board == <<board_state, p1_pieces, p2_pieces>>
terminal == <<game_over, winner, win_reason>>
chain == <<capture_sequence, capturing_piece>>
vars == <<board_state, p1_pieces, p2_pieces, current_player, game_over, winner,
          win_reason, capture_sequence, capturing_piece, move_count,
          last_captured_piece, ret, probe, edits, npc, game_history>>

Self == Board(board_state, p1_pieces, p2_pieces)

\* What a call returned: (success, info).  Keys a call does not set keep the
\* values below.
Returned(op, ok) ==
    [op |-> op, ok |-> ok, error |-> "", is_capture |-> FALSE,
     chain_capture_available |-> FALSE, piece_moved |-> EMPTY, captured_piece |-> <<>>]

(***************************************************************************)
(* Construction.  A layout is the list of (piece, position) pairs that     *)
(* _setup_initial_pieces reads from config.p1_setup and config.p2_setup.   *)
(***************************************************************************)
RECURSIVE AddAll(_, _)
AddAll(b, placements) ==
    IF placements = <<>> THEN b
    ELSE AddAll(add_piece(b, Head(placements)[2], Head(placements)[1]), Tail(placements))

setup_initial_pieces(placements) ==
    AddAll(Board([pos \in DOMAIN nodes |-> EMPTY], {}, {}), placements)

\* The layouts the model starts from, as config.p1_setup followed by
\* config.p2_setup.  Each puts both kings on the board.
Layouts ==
    { \* kings face to face, a second enemy piece behind the landing square
      << <<P1_KING, <<4, 0>>>>, <<P2_KING, <<2, 0>>>>, <<P2_WARRIOR, <<0, 2>>>> >>,
      \* a lone king against a king and a warrior within reach
      << <<P1_KING, <<4, 0>>>>, <<P2_KING, <<0, 4>>>>, <<P2_WARRIOR, <<2, 0>>>> >>,
      \* a warrior with two enemy warriors in line for a chain
      << <<P1_KING, <<0, 4>>>>, <<P1_WARRIOR, <<4, 0>>>>,
         <<P2_KING, <<0, 0>>>>, <<P2_WARRIOR, <<4, 2>>>>, <<P2_WARRIOR, <<3, 3>>>> >>,
      \* both sides past each other, one step from running out of moves
      << <<P1_KING, <<0, 4>>>>, <<P1_WARRIOR, <<1, 3>>>>,
         <<P2_KING, <<4, 0>>>>, <<P2_WARRIOR, <<3, 1>>>> >>,
      \* Player 2 already on its last row, Player 1 still able to move
      << <<P1_KING, <<2, 4>>>>, <<P1_WARRIOR, <<1, 3>>>>,
         <<P2_KING, <<4, 0>>>>, <<P2_WARRIOR, <<4, 2>>>> >>,
      \* king and prince each, in their own corners as in the default layout
      << <<P1_KING, <<4, 4>>>>, <<P1_PRINCE, <<3, 3>>>>,
         <<P2_KING, <<0, 0>>>>, <<P2_PRINCE, <<1, 1>>>> >>,
      \* king and two warriors against king and warrior, already in contact
      << <<P1_KING, <<2, 4>>>>, <<P1_WARRIOR, <<2, 0>>>>, <<P1_WARRIOR, <<3, 3>>>>,
         <<P2_KING, <<2, 2>>>>, <<P2_WARRIOR, <<1, 1>>>> >> }

NoProbe == <<>>

\* No AI player has been created.
NoNpc == <<>>

\* DabloGame.__init__ with a configuration whose setups are `layout`.
InitGame(layout) ==
        LET b == setup_initial_pieces(layout)
        IN  /\ board_state = b.board_state
            /\ p1_pieces = b.p1_pieces
            /\ p2_pieces = b.p2_pieces
            /\ current_player = P1
            /\ game_over = FALSE
            /\ winner = NoPlayer
            /\ win_reason = NoReason
            /\ capture_sequence = FALSE
            /\ capturing_piece = NoPos
            /\ move_count = 0
            /\ last_captured_piece = <<>>
            /\ ret = Returned("init", TRUE)

Init == \E layout \in Layouts : InitGame(layout) /\ probe = NoProbe /\ edits = 0 /\ npc = NoNpc /\ game_history = <<>>

(***************************************************************************)
(* game.py: make_move, _check_game_state, end_game                         *)
(***************************************************************************)
\* `if winner:` in _check_game_state
Truthy(w) == w # NoPlayer

\* (winner, reason) that _check_game_state computes for board b with cur to move.
check_game_state(b, cur, mc) ==
    check_win_condition(Cardinality(b.p1_pieces), Cardinality(b.p2_pieces),
                        get_king_position(b, P1) # NoPos,
                        get_king_position(b, P2) # NoPos,
                        mc, MoveLimit,
                        get_all_valid_moves(b, cur, FALSE, NoPos) # {},
                        cur)

\* additional_captures looking for captures from the square the piece left.
additional_captures_from_start(b, cur, move) ==
    {m \in get_valid_moves(b.board_state, cur, move.from_pos) :
        is_capture(m) /\ m.to_pos # move.from_pos}

\* additional_captures keeping every move of the landed piece, captures or not.
additional_captures_any_move(b, cur, move) ==
    {m \in get_valid_moves(b.board_state, cur, move.to_pos) : m.to_pos # move.from_pos}

\* additional_captures looking at the captures of every piece of the player.
additional_captures_of_any_piece(b, cur, move) ==
    {m \in get_all_valid_moves(b, cur, FALSE, NoPos) :
        is_capture(m) /\ m.to_pos # move.from_pos}

\* The captures that keep a chain going after `move` landed on board b.
additional_captures(b, cur, move) ==
    {m \in get_valid_moves(b.board_state, cur, move.to_pos) :
        is_capture(m) /\ m.to_pos # move.from_pos}

\* make_move past its game_over test: the move is executed as given.
execute_move(move) ==
    LET moving_piece == PieceAt(board_state, move.from_pos)
        b1 == add_piece(remove_piece(Self, move.from_pos), move.to_pos, moving_piece)
        captured_piece == PieceAt(b1.board_state, move.capture_pos)
        b2 == IF is_capture(move) THEN remove_piece(b1, move.capture_pos) ELSE b1
        continues == is_capture(move) /\ additional_captures(b2, current_player, move) # {}
        next_player == opponent(current_player)
        result == check_game_state(b2, next_player, move_count + 1)
        info == [Returned("make_move", TRUE) EXCEPT
                    !.piece_moved = moving_piece,
                    !.is_capture = is_capture(move),
                    !.captured_piece = IF is_capture(move) THEN <<captured_piece>> ELSE <<>>,
                    !.chain_capture_available = continues]
    IN  /\ board_state' = b2.board_state
        /\ p1_pieces' = b2.p1_pieces
        /\ p2_pieces' = b2.p2_pieces
        /\ move_count' = move_count + 1
        /\ last_captured_piece' =
               IF is_capture(move) THEN <<captured_piece>> ELSE last_captured_piece
        /\ ret' = info
        /\ UNCHANGED <<probe, edits, npc>>
        /\ IF continues
           THEN /\ capture_sequence' = TRUE
                /\ capturing_piece' = move.to_pos
                /\ UNCHANGED <<current_player, terminal>>
           ELSE /\ capture_sequence' = FALSE
                /\ capturing_piece' = NoPos
                /\ current_player' = next_player
                /\ IF Truthy(result[1])
                   THEN /\ game_over' = TRUE
                        /\ winner' = result[1]
                        /\ win_reason' = result[2]
                   ELSE UNCHANGED terminal

\* A make_move that counts the call it rejects.
make_move_counting_rejected(move) ==
    IF game_over
    THEN /\ ret' = [Returned("make_move", FALSE) EXCEPT !.error = "Game is over"]
         /\ move_count' = move_count + 1
         /\ UNCHANGED <<board, current_player, terminal, chain,
                        last_captured_piece, probe, edits, npc>>
    ELSE execute_move(move)

\* A make_move that forgets the game_over test.
make_move_unguarded(move) == execute_move(move)

make_move(move) ==
    IF game_over
    THEN /\ ret' = [Returned("make_move", FALSE) EXCEPT !.error = "Game is over"]
         /\ UNCHANGED <<board, current_player, terminal, chain, move_count,
                        last_captured_piece, probe, edits, npc>>
    ELSE execute_move(move)

end_game(w, reason) ==
    /\ game_over' = TRUE
    /\ winner' = w
    /\ win_reason' = reason
    /\ ret' = Returned("end_game", TRUE)
    /\ UNCHANGED <<board, current_player, chain, move_count, last_captured_piece,
                   probe, edits, npc>>

GetAllValidMoves == get_all_valid_moves(Self, current_player, capture_sequence, capturing_piece)

(***************************************************************************)
(* Play with the moves the game offers (the game loop of run_single_game   *)
(* and the front ends, which pick among get_all_valid_moves()).            *)
(***************************************************************************)
MakeLegalMove == (\E move \in GetAllValidMoves : make_move(move)) /\ UNCHANGED game_history

Next == MakeLegalMove

Spec == Init /\ [][Next]_vars

(***************************************************************************)
(* A caller that passes any step or jump between board positions, offered  *)
(* or not, and may end the game by hand.                                   *)
(***************************************************************************)
\* Calls on an active game that the caller specification allows.
MaxCalls == 1

CallerMoves ==
    UNION {{Move(f, n, NoPos) : n \in NodesGet(f)}
           \cup {Move(f, calculate_capture_landing(f, n), n) : n \in NodesGet(f)} :
           f \in DOMAIN nodes}

CallerReasons == {"invalid_move_bug", MOVE_LIMIT}

MakeAnyMove ==
    /\ game_over \/ move_count < MaxCalls
    /\ \E move \in CallerMoves : make_move(move)
    /\ UNCHANGED game_history

EndGame == (\E w \in Player, reason \in CallerReasons : end_game(w, reason)) /\ UNCHANGED game_history

NextCaller == MakeAnyMove \/ EndGame

SpecCaller == Init /\ [][NextCaller]_vars

(***************************************************************************)
(* A caller that edits the board: add_piece, remove_piece, clear_board and *)
(* setup_custom_position with any position of the board or one outside it, *)
(* and make_move with any step or jump, on a game constructed with a       *)
(* layout or with initial_state="empty".                                   *)
(***************************************************************************)
\* Calls that the editing specification allows on one game.
MaxEdits == 2

\* A position outside every board: the source's (-1.0, 0.0).
OffBoard == <<0 - 2, 0>>

EditPositions == DOMAIN nodes \cup {OffBoard}

\* DabloGame.__init__ with initial_state="empty": _setup_initial_pieces is
\* skipped and board_state stays the empty dict.
InitEmptyGame ==
    /\ board_state = <<>>
    /\ p1_pieces = {}
    /\ p2_pieces = {}
    /\ current_player = P1
    /\ game_over = FALSE
    /\ winner = NoPlayer
    /\ win_reason = NoReason
    /\ capture_sequence = FALSE
    /\ capturing_piece = NoPos
    /\ move_count = 0
    /\ last_captured_piece = <<>>
    /\ ret = Returned("init", TRUE)

InitEdit ==
    /\ (\E layout \in Layouts : InitGame(layout)) \/ InitEmptyGame
    /\ probe = NoProbe
    /\ edits = 0 /\ npc = NoNpc /\ game_history = <<>>

SetBoard(b) ==
    /\ board_state' = b.board_state
    /\ p1_pieces' = b.p1_pieces
    /\ p2_pieces' = b.p2_pieces
    /\ edits' = edits + 1
    /\ UNCHANGED <<current_player, terminal, chain, move_count, last_captured_piece,
                   probe, npc, game_history>>

clear_board(b) == Board([pos \in DOMAIN b.board_state |-> EMPTY], {}, {})

\* The pieces argument as the list of its (piece, position) items; Empty
\* items are skipped.
setup_custom_position(b, pieces) ==
    AddAll(clear_board(b), SelectSeq(pieces, LAMBDA item : item[1] # EMPTY))

\* The dicts passed to setup_custom_position.
CustomPositions ==
    { <<>>,
      << <<P1_KING, <<4, 0>>>>, <<P2_KING, <<0, 0>>>> >>,
      << <<P1_WARRIOR, <<1, 1>>>>, <<EMPTY, <<2, 2>>>>, <<P2_PRINCE, OffBoard>> >> }

AddPiece ==
    /\ edits + move_count < MaxEdits
    /\ \E pos \in EditPositions, piece_type \in PieceType :
           /\ SetBoard(add_piece(Self, pos, piece_type))
           /\ ret' = Returned("add_piece",
                              pos \in DOMAIN board_state /\ board_state[pos] = EMPTY)

\* The removed piece is reported in piece_moved.
RemovePiece ==
    /\ edits + move_count < MaxEdits
    /\ \E pos \in EditPositions :
           /\ SetBoard(remove_piece(Self, pos))
           /\ ret' = [Returned("remove_piece", TRUE) EXCEPT
                         !.piece_moved = PieceAt(board_state, pos)]

ClearBoard ==
    /\ edits + move_count < MaxEdits
    /\ SetBoard(clear_board(Self))
    /\ ret' = Returned("clear_board", TRUE)

SetupCustomPosition ==
    /\ edits + move_count < MaxEdits
    /\ \E pieces \in CustomPositions :
           /\ SetBoard(setup_custom_position(Self, pieces))
           /\ ret' = Returned("setup_custom_position", TRUE)

EditMove ==
    /\ game_over \/ edits + move_count < MaxEdits
    /\ \E move \in CallerMoves : make_move(move)
    /\ UNCHANGED game_history

NextEdit == AddPiece \/ RemovePiece \/ ClearBoard \/ SetupCustomPosition \/ EditMove

SpecEdit == InitEdit /\ [][NextEdit]_vars

(***************************************************************************)
(* _create_board_graph on its own, for every board size the configuration  *)
(* accepts.                                                                *)
(***************************************************************************)
\* DabloConfig: board_rows and board_cols are validated with ge=3, le=10.
MinBoard == 3
MaxBoard == 10

InitGraph ==
    /\ \E layout \in Layouts : InitGame(layout)
    /\ edits = 0 /\ npc = NoNpc /\ game_history = <<>>
    /\ probe \in {[fn |-> "create_board_graph", rows |-> r, cols |-> c, result |-> <<>>] :
                     r \in MinBoard..MaxBoard, c \in MinBoard..MaxBoard}

CreateBoardGraph ==
    /\ probe.result = <<>>
    /\ probe' = [probe EXCEPT !.result = create_board_graph(probe.rows, probe.cols)]
    /\ UNCHANGED <<board, current_player, terminal, chain, move_count,
                   last_captured_piece, ret, edits, npc, game_history>>

NextGraph == CreateBoardGraph

SpecGraph == InitGraph /\ [][NextGraph]_vars

(***************************************************************************)
(* can_capture and calculate_capture_landing on their own: can_capture for *)
(* every pair of piece types, calculate_capture_landing for every pair of  *)
(* adjacent positions of the largest board.                                *)
(***************************************************************************)
AdjacentPairs ==
    LET g == create_board_graph(MaxBoard, MaxBoard)
    IN  UNION {{<<a, b>> : b \in Range(g[a])} : a \in DOMAIN g}

InitRules ==
    /\ \E layout \in Layouts : InitGame(layout)
    /\ edits = 0 /\ npc = NoNpc /\ game_history = <<>>
    /\ probe \in
         {[fn |-> "can_capture", args |-> <<attacker, target>>, result |-> <<>>] :
             attacker \in PieceType, target \in PieceType}
         \cup {[fn |-> "calculate_capture_landing", args |-> pair, result |-> <<>>] :
                  pair \in AdjacentPairs}

EvalCanCapture ==
    /\ probe.fn = "can_capture" /\ probe.result = <<>>
    /\ probe' = [probe EXCEPT !.result = <<can_capture(probe.args[1], probe.args[2])>>]
    /\ UNCHANGED <<board, current_player, terminal, chain, move_count,
                   last_captured_piece, ret, edits, npc, game_history>>

EvalCaptureLanding ==
    /\ probe.fn = "calculate_capture_landing" /\ probe.result = <<>>
    /\ probe' = [probe EXCEPT !.result =
                     <<calculate_capture_landing(probe.args[1], probe.args[2])>>]
    /\ UNCHANGED <<board, current_player, terminal, chain, move_count,
                   last_captured_piece, ret, edits, npc, game_history>>

NextRules == EvalCanCapture \/ EvalCaptureLanding

SpecRules == InitRules /\ [][NextRules]_vars

(***************************************************************************)
(* check_win_condition on its own: the arguments are drawn from every      *)
(* combination of piece counts, king flags, move count around the limit,   *)
(* has_valid_moves and player to move.                                     *)
(***************************************************************************)
\* Largest piece count passed to check_win_condition.
MaxCount == 3

WinArgs ==
    [p1_pieces_count : 0..MaxCount, p2_pieces_count : 0..MaxCount,
     p1_king_exists : BOOLEAN, p2_king_exists : BOOLEAN,
     move_count : 0..(MoveLimit + 1), has_valid_moves : BOOLEAN,
     current_player : Player]

InitWin ==
    /\ \E layout \in Layouts : InitGame(layout)
    /\ edits = 0 /\ npc = NoNpc /\ game_history = <<>>
    /\ probe \in {[fn |-> "check_win_condition", args |-> a, result |-> <<>>] :
                     a \in WinArgs}

EvalWinCondition ==
    /\ probe.result = <<>>
    /\ probe' = [probe EXCEPT !.result =
                     check_win_condition(probe.args.p1_pieces_count,
                                         probe.args.p2_pieces_count,
                                         probe.args.p1_king_exists,
                                         probe.args.p2_king_exists,
                                         probe.args.move_count, MoveLimit,
                                         probe.args.has_valid_moves,
                                         probe.args.current_player)]
    /\ UNCHANGED <<board, current_player, terminal, chain, move_count,
                   last_captured_piece, ret, edits, npc, game_history>>

NextWin == EvalWinCondition

SpecWin == InitWin /\ [][NextWin]_vars

(***************************************************************************)
(* ai/config.py and ai/players.py: the heuristic player.  Scores are kept  *)
(* exactly, in thousandths; weights and values of the configuration are in *)
(* tenths, randomness in hundredths, draws of the generator in thirtieths. *)
(***************************************************************************)
\* npc_config.hard
hard == [capture_preference |-> 10, king_safety |-> 7, randomness |-> 8]

\* DifficultySettings with the randomness weight at its lower limit.
hard_no_randomness == [hard EXCEPT !.randomness = 0]

\* npc_config.evaluation, weights in tenths, bonus and cap in thousandths
evaluation ==
    [chain_capture_bonus |-> 6000, center_control |-> 2, piece_protection |-> 3,
     threat_creation |-> 7, max_threat_value |-> 3000]

\* npc_config.king_safety, penalties and bonuses in tenths, thresholds in tenths
king_safety ==
    [capture_danger_penalty |-> 0 - 50, immediate_threat_penalty |-> 0 - 500,
     close_distance_penalty |-> 0 - 40, medium_distance_penalty |-> 0 - 20,
     safe_distance_bonus |-> 2, very_safe_bonus |-> 5,
     immediate_danger_threshold |-> 11, close_danger_threshold |-> 16,
     medium_safety_threshold |-> 25]

\* npc_config.center_control, rows and columns doubled, bonuses in tenths
center_control ==
    [center_rows |-> {4, 5, 6}, center_cols |-> {3, 4, 5}, row_bonus |-> 3, col_bonus |-> 3]

\* npc_config.move_selection, the least value for protection in thousandths
move_selection ==
    [top_moves_count |-> 3, selection_weights |-> <<3, 2, 1>>,
     min_piece_value_for_protection |-> 2000]

\* get_piece_value in thousandths
get_piece_value(piece) ==
    CASE Abs(piece) = 1 -> 1000
      [] Abs(piece) = 2 -> 3000
      [] Abs(piece) = 3 -> 10000
      [] OTHER -> 0

\* SmartNPCPlayer.__init__
SmartNPCPlayer(player_id, settings) ==
    [player_id |-> player_id, settings |-> settings, opponent_id |-> opponent(player_id),
     threat_cache |-> {}, threat_cache_hits |-> 0, threat_cache_misses |-> 0]

\* clear_cache
clear_cache(self) == [self EXCEPT !.threat_cache = {}]

\* _simulate_move_on_board that works on the dictionary it was handed.
simulate_move_on_board_in_place(bs, move) ==
    LET moving_piece == PieceAt(bs, move.from_pos)
        new_board == [p \in ((DOMAIN bs \ {move.from_pos}) \cup {move.to_pos}
                             \cup (IF is_capture(move) THEN {move.capture_pos} ELSE {})) |->
                         IF is_capture(move) /\ p = move.capture_pos THEN EMPTY
                         ELSE IF p = move.to_pos THEN moving_piece
                         ELSE bs[p]]
    IN  [new_board |-> new_board, board_state |-> new_board]

\* _simulate_move_on_board: the dictionary it returns, and the dictionary it
\* was handed as the call leaves it.  pop removes the key of from_pos; the
\* capture square is assigned after the landing square.
simulate_move_on_board(bs, move) ==
    LET moving_piece == PieceAt(bs, move.from_pos)
        new_board == [p \in ((DOMAIN bs \ {move.from_pos}) \cup {move.to_pos}
                             \cup (IF is_capture(move) THEN {move.capture_pos} ELSE {})) |->
                         IF is_capture(move) /\ p = move.capture_pos THEN EMPTY
                         ELSE IF p = move.to_pos THEN moving_piece
                         ELSE bs[p]]
    IN  [new_board |-> new_board, board_state |-> bs]

\* A _create_temp_game_state that also registers the pieces of the board.
create_temp_game_state_tracking(bs, player_to_move) ==
    [board |-> Board(bs, {pos \in DOMAIN bs : bs[pos] > 0}, {pos \in DOMAIN bs : bs[pos] < 0}),
     current_player |-> player_to_move]

\* A _create_temp_game_state that hands the turn to the other side.
create_temp_game_state_for_opponent(bs, player_to_move) ==
    [board |-> Board(bs, {}, {}), current_player |-> opponent(player_to_move)]

\* _create_temp_game_state: DabloGame(initial_state="empty") has empty piece
\* sets, and only board_state and current_player are assigned afterwards.
create_temp_game_state(bs, player_to_move) ==
    [board |-> Board(bs, {}, {}), current_player |-> player_to_move]

\* get_all_valid_moves of a temporary game (no capture sequence)
TempMoves(temp_game) ==
    get_all_valid_moves(temp_game.board, temp_game.current_player, FALSE, NoPos)

\* _get_board_hash together with the rest of the cache key
cache_key(bs, pos, for_player_id) == <<bs, pos, for_player_id>>

Cached(self, key) == \E e \in self.threat_cache : e[1] = key

CachedValue(self, key) == (CHOOSE e \in self.threat_cache : e[1] = key)[2]

\* _get_threat_level: the value returned and the player afterwards
get_threat_level(self, bs, pos, for_player_id) ==
    LET key == cache_key(bs, pos, for_player_id)
        temp_game == create_temp_game_state(bs, opponent(for_player_id))
        immediate_threats ==
            Cardinality({mv \in TempMoves(temp_game) :
                            is_capture(mv) /\ mv.capture_pos = pos})
        potential_threats ==
            Cardinality({mv \in TempMoves(temp_game) :
                            /\ ~is_capture(mv)
                            /\ Abs(mv.to_pos[1] - pos[1]) <= 2
                            /\ Abs(mv.to_pos[2] - pos[2]) <= 2})
        missed == [self EXCEPT !.threat_cache_misses = @ + 1]
    IN  IF Cached(self, key)
        THEN [value |-> CachedValue(self, key),
              self |-> [self EXCEPT !.threat_cache_hits = @ + 1]]
        ELSE IF immediate_threats > 0
        THEN [value |-> immediate_threats, self |-> missed]
        ELSE [value |-> potential_threats,
              self |-> [missed EXCEPT !.threat_cache =
                           {e \in @ : e[1] # key} \cup {<<key, potential_threats>>}]]

\* Whether the distance between two positions is below a threshold given in
\* tenths of a square: positions are doubled, so sqrt(dr^2 + dc^2) / 2 < t / 10.
CloserThan(a, b, threshold) ==
    100 * ((a[1] - b[1]) * (a[1] - b[1]) + (a[2] - b[2]) * (a[2] - b[2]))
        < 4 * threshold * threshold

\* _evaluate_king_safety, in tenths
evaluate_king_safety(self, board_after_move) ==
    LET king_type == IF self.player_id = P1 THEN P1_KING ELSE P2_KING
        kings == {pos \in DOMAIN board_after_move : board_after_move[pos] = king_type}
        king_pos == CHOOSE pos \in kings : TRUE
        temp_game == create_temp_game_state(board_after_move, self.opponent_id)
        enemy_positions ==
            {pos \in DOMAIN board_after_move :
                /\ board_after_move[pos] # EMPTY
                /\ (board_after_move[pos] > 0) # (self.player_id > 0)}
        Within(threshold) == \E pos \in enemy_positions : CloserThan(king_pos, pos, threshold)
    IN  IF kings = {} THEN king_safety.immediate_threat_penalty
        ELSE IF \E opp_move \in TempMoves(temp_game) :
                    is_capture(opp_move) /\ opp_move.capture_pos = king_pos
        THEN king_safety.capture_danger_penalty
        ELSE IF enemy_positions = {} THEN king_safety.very_safe_bonus
        ELSE IF Within(king_safety.immediate_danger_threshold)
        THEN king_safety.close_distance_penalty
        ELSE IF Within(king_safety.close_danger_threshold)
        THEN king_safety.medium_distance_penalty
        ELSE IF Within(king_safety.medium_safety_threshold)
        THEN king_safety.safe_distance_bonus
        ELSE king_safety.very_safe_bonus

\* _evaluate_center_control, in tenths
evaluate_center_control(move) ==
    (IF move.to_pos[1] \in center_control.center_rows THEN center_control.row_bonus ELSE 0)
    + (IF move.to_pos[2] \in center_control.center_cols THEN center_control.col_bonus ELSE 0)

\* _evaluate_piece_protection: the value in thousandths and the player afterwards
evaluate_piece_protection(self, bs, move, board_after_move) ==
    LET moving_piece == PieceAt(bs, move.from_pos)
        piece_value == get_piece_value(moving_piece)
        before == get_threat_level(self, bs, move.from_pos, self.player_id)
        after == get_threat_level(before.self, board_after_move, move.to_pos, self.player_id)
    IN  IF move.from_pos \notin DOMAIN bs \/ moving_piece = EMPTY
        THEN [value |-> 0, self |-> self]
        ELSE IF piece_value < move_selection.min_piece_value_for_protection
        THEN [value |-> 0, self |-> self]
        ELSE IF before.value = 0 THEN [value |-> 0, self |-> before.self]
        ELSE [value |-> (before.value - after.value) * piece_value, self |-> after.self]

\* The smaller of two numbers.
Min(a, b) == IF a < b THEN a ELSE b

\* The sum and the largest of the piece values on the capture squares of a
\* set of moves.
RECURSIVE SumValues(_, _)
SumValues(bs, moves) ==
    IF moves = {} THEN 0
    ELSE LET m == CHOOSE m \in moves : TRUE
         IN  get_piece_value(PieceAt(bs, m.capture_pos)) + SumValues(bs, moves \ {m})

MaxValue(bs, moves) ==
    LET values == {get_piece_value(PieceAt(bs, m.capture_pos)) : m \in moves}
    IN  CHOOSE v \in values : \A w \in values : w <= v

\* _evaluate_threat_creation, in thousandths
evaluate_threat_creation(self, board_after_move) ==
    LET temp_game == create_temp_game_state(board_after_move, self.player_id)
        capture_moves == {m \in TempMoves(temp_game) : is_capture(m)}
        threat_value == SumValues(temp_game.board.board_state, capture_moves)
    IN  Min((threat_value * 3) \div 10, evaluation.max_threat_value)

\* _evaluate_move: the score in thousandths, the player afterwards, the game's
\* board as the evaluation leaves it, and on their own the king safety term
\* and whether the chain-capture bonus was added.
evaluate_move(self, bs, move) ==
    LET sim == simulate_move_on_board(bs, move)
        board_after_move == sim.new_board
        game_bs == sim.board_state
        captured_piece == PieceAt(game_bs, move.capture_pos)
        game_after_capture == create_temp_game_state(board_after_move, self.player_id)
        next_moves == get_valid_moves(game_after_capture.board.board_state,
                                      game_after_capture.current_player, move.to_pos)
        chain_captures == {m \in next_moves : is_capture(m)}
        capture_score ==
            IF ~is_capture(move) THEN 0
            ELSE (get_piece_value(captured_piece) * self.settings.capture_preference) \div 10
                 + (IF chain_captures = {} THEN 0
                    ELSE evaluation.chain_capture_bonus
                         + MaxValue(game_after_capture.board.board_state, chain_captures))
        safety == evaluate_king_safety(self, board_after_move)
        protection == evaluate_piece_protection(self, game_bs, move, board_after_move)
    IN  [score |-> capture_score
                   + safety * self.settings.king_safety * 10
                   + evaluate_center_control(move) * evaluation.center_control * 10
                   + (protection.value * evaluation.piece_protection) \div 10
                   + (evaluate_threat_creation(protection.self, board_after_move)
                          * evaluation.threat_creation) \div 10,
         self |-> protection.self,
         board_state |-> game_bs,
         king_safety |-> safety,
         chain_bonus |-> is_capture(move) /\ chain_captures # {}]

\* get_all_valid_moves as the list the source builds: the pieces of the
\* player to move are visited in the iteration order of its position set.
get_all_valid_moves_for_opponent(bs, cur, in_chain, chain_pos, order) ==
    LET RECURSIVE Collect(_)
        Collect(i) ==
            IF i > Len(order) THEN <<>>
            ELSE get_valid_moves_list(bs, opponent(cur), order[i]) \o Collect(i + 1)
    IN  Collect(1)

get_all_valid_moves_list(bs, cur, in_chain, chain_pos, order) ==
    LET RECURSIVE Collect(_)
        Collect(i) ==
            IF i > Len(order) THEN <<>>
            ELSE get_valid_moves_list(bs, cur, order[i]) \o Collect(i + 1)
    IN  IF in_chain /\ chain_pos # NoPos THEN get_valid_moves_list(bs, cur, chain_pos)
        ELSE Collect(1)

\* The orders in which a set of positions can be iterated.
IterationOrders(S) ==
    {order \in [1..Cardinality(S) -> S] :
        \A i, j \in 1..Cardinality(S) : i # j => order[i] # order[j]}

\* The element of a set of one element; it lets a value that was computed
\* once be used several times.
Only(S) == CHOOSE x \in S : TRUE

\* The evaluation loop of get_move: one (move, score) entry per legal move,
\* the player and the game's board being handed from one evaluation to the next.
RECURSIVE score_moves(_, _, _, _)
score_moves(self, bs, valid_moves, move_scores) ==
    IF valid_moves = <<>>
    THEN [self |-> self, board_state |-> bs, move_scores |-> move_scores]
    ELSE Only({score_moves(e.self, e.board_state, Tail(valid_moves),
                           Append(move_scores,
                                  [move |-> Head(valid_moves), score |-> e.score,
                                   king_safety |-> e.king_safety,
                                   chain_bonus |-> e.chain_bonus])) :
                  e \in {evaluate_move(self, bs, Head(valid_moves))}})

\* A sort that puts the lowest score first.
RECURSIVE sort_by_score_ascending(_)
sort_by_score_ascending(move_scores) ==
    IF move_scores = <<>> THEN <<>>
    ELSE Only({SelectSeq(rest, LAMBDA y : y.score <= x.score) \o <<x>>
               \o SelectSeq(rest, LAMBDA y : y.score > x.score) :
                  rest \in {sort_by_score_ascending(SubSeq(move_scores, 1, Len(move_scores) - 1))},
                  x \in {move_scores[Len(move_scores)]}})

\* move_scores.sort(key=score, reverse=True): highest score first, entries of
\* equal score in the order they had.
RECURSIVE sort_by_score(_)
sort_by_score(move_scores) ==
    IF move_scores = <<>> THEN <<>>
    ELSE Only({SelectSeq(rest, LAMBDA y : y.score >= x.score) \o <<x>>
               \o SelectSeq(rest, LAMBDA y : y.score < x.score) :
                  rest \in {sort_by_score(SubSeq(move_scores, 1, Len(move_scores) - 1))},
                  x \in {move_scores[Len(move_scores)]}})

\* random.random() < level, for a draw in thirtieths and a level in hundredths
Below(draw, level) == draw * 100 < level * 30

\* random.choice(seq) for the draw that selects the index
random_choice(seq, draw) == seq[(draw * Len(seq)) \div 30 + 1]

\* random.choices(population, weights, k=1)[0]: the index is the number of
\* cumulative weights, the last one left out, that are at most draw * total.
random_choices(population, weights, draw) ==
    LET n == Len(population)
        RECURSIVE Cum(_)
        Cum(i) == IF i = 0 THEN 0 ELSE Cum(i - 1) + weights[i]
        total == Cum(n)
    IN  population[Cardinality({i \in 1..(n - 1) : 30 * Cum(i) <= draw * total}) + 1]

\* get_move for the list of legal moves the game returned and the two draws
\* the call takes from the generator.
get_move(self, bs, valid_moves, draws) ==
    LET top_count == move_selection.top_moves_count
        Choose(scored, sorted) ==
            LET top_moves == SubSeq(sorted, 1, Min(top_count, Len(sorted)))
                weights == SubSeq(move_selection.selection_weights, 1,
                                  Min(Len(top_moves), Len(move_selection.selection_weights)))
            IN  [move |-> random_choices(top_moves, weights, draws[2]).move,
                 self |-> scored.self, board_state |-> scored.board_state,
                 branch |-> "scored", move_scores |-> sorted]
    IN  IF valid_moves = <<>>
        THEN [move |-> NoMove, self |-> self, board_state |-> bs,
              branch |-> "none", move_scores |-> <<>>]
        ELSE IF Below(draws[1], self.settings.randomness)
        THEN [move |-> random_choice(valid_moves, draws[2]), self |-> self,
              board_state |-> bs, branch |-> "random", move_scores |-> <<>>]
        ELSE Only({Only({Choose(scored, sorted) :
                            sorted \in {sort_by_score(scored.move_scores)}}) :
                      scored \in {score_moves(self, bs, valid_moves, <<>>)}})

(***************************************************************************)
(* The heuristic player against a game: a SmartNPCPlayer is created for    *)
(* one side, the game is played to a position, and then get_move,          *)
(* _get_threat_level and clear_cache are called on that position.          *)
(***************************************************************************)
MaxLookups == 2
MaxPlayed == 2

\* The draws of the generator the model distinguishes, in thirtieths: the
\* first is compared with the randomness weight, the second selects the move.
FirstDraws == {0, 29}
Draws == {0, 17, 29}

InitAI ==
    /\ \E layout \in Layouts : InitGame(layout)
    /\ probe = NoProbe
    /\ edits = 0 /\ game_history = <<>>
    /\ \E player_id \in Player, settings \in {hard, hard_no_randomness} :
          npc = SmartNPCPlayer(player_id, settings)

Lookups == npc.threat_cache_hits + npc.threat_cache_misses

\* get_move(game)
GetMove ==
    /\ ~game_over
    /\ Lookups < MaxLookups
    /\ \E order \in IterationOrders(IF current_player = P1 THEN p1_pieces ELSE p2_pieces),
          d1 \in FirstDraws, d2 \in Draws :
          \E valid_moves \in {get_all_valid_moves_list(board_state, current_player,
                                   capture_sequence, capturing_piece, order)} :
          \E r \in {get_move(npc, board_state, valid_moves, <<d1, d2>>)} :
              /\ npc' = r.self
              /\ board_state' = r.board_state
              /\ probe' = [fn |-> "get_move", valid_moves |-> valid_moves,
                           draws |-> <<d1, d2>>, move |-> r.move, branch |-> r.branch,
                           move_scores |-> r.move_scores]
    /\ ret' = Returned("get_move", TRUE)
    /\ UNCHANGED <<p1_pieces, p2_pieces, current_player, terminal, chain, move_count,
                   last_captured_piece, edits, game_history>>

\* make_move with a legal move, before the player is consulted
PlayMove ==
    /\ move_count < MaxPlayed
    /\ probe = NoProbe
    /\ \E move \in GetAllValidMoves : make_move(move)
    /\ UNCHANGED game_history

\* _get_threat_level(game, pos, self.player_id) called on its own, for a
\* square that holds a piece of the player's side
GetThreatLevel ==
    /\ Lookups < MaxLookups
    /\ \E for_player_id \in {npc.player_id} :
       \E pos \in (IF for_player_id = P1 THEN p1_pieces ELSE p2_pieces) :
          \E r \in {get_threat_level(npc, board_state, pos, for_player_id)} :
              /\ npc' = r.self
              /\ probe' = [fn |-> "get_threat_level",
                           key |-> cache_key(board_state, pos, for_player_id),
                           value |-> r.value]
    /\ ret' = Returned("get_threat_level", TRUE)
    /\ UNCHANGED <<board, current_player, terminal, chain, move_count,
                   last_captured_piece, edits, game_history>>

\* clear_cache()
ClearCache ==
    /\ npc.threat_cache # {}
    /\ npc' = clear_cache(npc)
    /\ probe' = [fn |-> "clear_cache"]
    /\ ret' = Returned("clear_cache", TRUE)
    /\ UNCHANGED <<board, current_player, terminal, chain, move_count,
                   last_captured_piece, edits, game_history>>

NextAI == GetMove \/ PlayMove \/ GetThreatLevel \/ ClearCache

SpecAI == InitAI /\ [][NextAI]_vars

(***************************************************************************)
(* ui/interactive.py: the click-to-play front end with two human players   *)
(* (vs_npc False).  Selecting a piece and clicking a destination executes  *)
(* one of the moves get_all_valid_moves() offers; the key "u" undoes.      *)
(***************************************************************************)
\* Saved states the front end holds at a time, and undos on one game.
MaxExecuted == 3
MaxUndone == 2

\* _save_game_state()
save_game_state ==
    [board_state |-> board_state, current_player |-> current_player,
     move_count |-> move_count, capture_sequence |-> capture_sequence,
     capturing_piece |-> capturing_piece, game_over |-> game_over, winner |-> winner]

\* _load_game_state(state) applied to the game fields g: the fields of the
\* saved state are assigned, every other field of the game keeps its value.
load_game_state(g, state) ==
    [g EXCEPT !.board_state = state.board_state,
              !.current_player = state.current_player,
              !.move_count = state.move_count,
              !.capture_sequence = state.capture_sequence,
              !.capturing_piece = state.capturing_piece,
              !.game_over = state.game_over,
              !.winner = state.winner]

\* The fields of self.game.
Game ==
    [board_state |-> board_state, p1_pieces |-> p1_pieces, p2_pieces |-> p2_pieces,
     current_player |-> current_player, move_count |-> move_count,
     capture_sequence |-> capture_sequence, capturing_piece |-> capturing_piece,
     game_over |-> game_over, winner |-> winner, win_reason |-> win_reason,
     last_captured_piece |-> last_captured_piece]

InitUI ==
    /\ \E layout \in Layouts : InitGame(layout)
    /\ probe = NoProbe
    /\ edits = 0 /\ npc = NoNpc
    /\ game_history = <<>>

\* _try_select_piece and _try_make_move ending in _execute_move(move): the
\* state is saved, then the move is made.
ExecuteMove ==
    /\ Len(game_history) < MaxExecuted
    /\ \E move \in GetAllValidMoves :
           /\ game_history' = Append(game_history, save_game_state)
           /\ make_move(move)

\* _undo_move(): the last saved state is loaded and dropped from the history.
\* (edits counts the undos.)
UndoMove ==
    /\ edits < MaxUndone
    /\ game_history # <<>>
    /\ \E g \in {load_game_state(Game, game_history[Len(game_history)])} :
           /\ board_state' = g.board_state
           /\ p1_pieces' = g.p1_pieces
           /\ p2_pieces' = g.p2_pieces
           /\ current_player' = g.current_player
           /\ move_count' = g.move_count
           /\ capture_sequence' = g.capture_sequence
           /\ capturing_piece' = g.capturing_piece
           /\ game_over' = g.game_over
           /\ winner' = g.winner
           /\ win_reason' = g.win_reason
           /\ last_captured_piece' = g.last_captured_piece
    /\ game_history' = SubSeq(game_history, 1, Len(game_history) - 1)
    /\ ret' = Returned("undo_move", TRUE)
    /\ edits' = edits + 1
    /\ UNCHANGED <<probe, npc>>

NextUI == ExecuteMove \/ UndoMove

SpecUI == InitUI /\ [][NextUI]_vars

(***************************************************************************)
(* config.py and DabloGame.__init__: construction from any configuration   *)
(* the validation accepts (board_rows and board_cols from 3 to 10, any     *)
(* setups), with the default setups or supplied ones.                      *)
(***************************************************************************)
\* The default p1_setup followed by the default p2_setup, in dict order.
default_setup ==
    << <<P1_KING, <<6, 8>>>>, <<P1_PRINCE, <<7, 7>>>> >>
    \o [c \in 1..5 |-> <<P1_WARRIOR, <<10, 2 * (c - 1)>>>>]
    \o [c \in 1..4 |-> <<P1_WARRIOR, <<9, 2 * (c - 1) + 1>>>>]
    \o [c \in 1..5 |-> <<P1_WARRIOR, <<8, 2 * (c - 1)>>>>]
    \o << <<P2_KING, <<4, 0>>>>, <<P2_PRINCE, <<3, 1>>>> >>
    \o [c \in 1..5 |-> <<P2_WARRIOR, <<0, 2 * (c - 1)>>>>]
    \o [c \in 1..4 |-> <<P2_WARRIOR, <<1, 2 * (c - 1) + 1>>>>]
    \o [c \in 1..5 |-> <<P2_WARRIOR, <<2, 2 * (c - 1)>>>>]

\* DabloConfig(board_rows, board_cols, p1_setup, p2_setup)
DabloConfig(rows, cols, setup) == [board_rows |-> rows, board_cols |-> cols, setup |-> setup]

\* The configurations constructed: every accepted board size, with the
\* default setups or with one of the supplied layouts.
Configs ==
    {DabloConfig(rows, cols, setup) :
        rows \in MinBoard..MaxBoard, cols \in MinBoard..MaxBoard,
        setup \in {default_setup} \cup Layouts}

\* _setup_initial_pieces() on the graph of the configured size.
setup_initial_pieces_of(config) ==
    AddAll(Board([pos \in DOMAIN create_board_graph(config.board_rows, config.board_cols)
                     |-> EMPTY], {}, {}),
           config.setup)

\* DabloGame(config) up to the call of _setup_initial_pieces: every field has
\* its first value and board_state is the empty dict; probe keeps self.config.
InitConfig ==
    /\ InitEmptyGame
    /\ probe \in {[fn |-> "DabloGame", config |-> config] : config \in Configs}
    /\ edits = 0 /\ npc = NoNpc /\ game_history = <<>>

\* _setup_initial_pieces(), which ends the construction.
SetupInitialPieces ==
    /\ ret.op = "init"
    /\ \E b \in {setup_initial_pieces_of(probe.config)} :
           /\ board_state' = b.board_state
           /\ p1_pieces' = b.p1_pieces
           /\ p2_pieces' = b.p2_pieces
    /\ ret' = Returned("setup_initial_pieces", TRUE)
    /\ UNCHANGED <<current_player, terminal, chain, move_count, last_captured_piece,
                   probe, edits, npc, game_history>>

NextConfig == SetupInitialPieces

SpecConfig == InitConfig /\ [][NextConfig]_vars

(***************************************************************************)
(* Observations the claims are stated with, read off the board itself.     *)
(***************************************************************************)
KingOnBoard(player) ==
    \E pos \in DOMAIN board_state : board_state[pos] = player * P1_KING

PiecesOnBoard(player) ==
    Cardinality({pos \in DOMAIN board_state : board_state[pos] * player > 0})

\* The last call was a make_move that ended the mover's turn.
TurnCompleted ==
    ret.op = "make_move" /\ ret.ok /\ ~ret.chain_capture_available

KingsOnly == PiecesOnBoard(P1) = 1 /\ PiecesOnBoard(P2) = 1

LoneKing(player) == PiecesOnBoard(player) = 1 /\ PiecesOnBoard(opponent(player)) > 1

GameFields ==
    <<board_state, p1_pieces, p2_pieces, current_player, move_count,
      capture_sequence, capturing_piece, game_over, winner, win_reason>>

(***************************************************************************)
(* Claims                                                                  *)
(***************************************************************************)

\* C1: in every state reached by legal moves, chain states included, a player
\* whose king is not on the board has lost: game_over is true and the winner
\* is the other player.
C1_KingAbsentIsTerminal ==
    \A player \in Player :
        ~KingOnBoard(player) => game_over /\ winner = opponent(player)

\* C2: when make_move completes a turn that leaves each player with exactly
\* one piece, both kings, the game is over as a kings-only draw with no winner.
C2_KingsOnlyDraw ==
    (TurnCompleted /\ KingsOnly /\ KingOnBoard(P1) /\ KingOnBoard(P2))
        => (game_over /\ winner = NoPlayer /\ win_reason = KINGS_ONLY_DRAW)

\* C3: when make_move completes a turn with move_count at or over the limit
\* and no king capture, kings-only draw or lone king applies, the game is over
\* as a move-limit draw; and no game is over by move limit below the limit.
C3_MoveLimitDraw ==
    /\ (/\ TurnCompleted
        /\ move_count >= MoveLimit
        /\ KingOnBoard(P1) /\ KingOnBoard(P2)
        /\ ~KingsOnly /\ ~LoneKing(P1) /\ ~LoneKing(P2))
           => (game_over /\ winner = NoPlayer /\ win_reason = MOVE_LIMIT)
    /\ (game_over /\ win_reason = MOVE_LIMIT) => move_count >= MoveLimit

\* C4: make_move on an active game with a move that get_all_valid_moves()
\* does not offer returns failure and leaves the game unchanged.
C4_IllegalMoveRejected ==
    [][\A move \in CallerMoves :
          (~game_over /\ move \notin GetAllValidMoves /\ make_move(move))
              => (ret'.ok = FALSE /\ UNCHANGED GameFields)]_vars

\* C7: while a capture chain is active every move offered by
\* get_all_valid_moves(), and by get_valid_moves on the continuing piece, is a
\* capture.
C7_ChainOffersOnlyCaptures ==
    capture_sequence =>
        /\ \A m \in GetAllValidMoves : is_capture(m)
        /\ \A m \in get_valid_moves(board_state, current_player, capturing_piece) :
               is_capture(m)

\* C5: once game_over is true every make_move call, whatever the move,
\* returns (False, error info) and leaves the game unchanged, so the game
\* stays over.  (ret'.op tells which call a step is.)
C5_TerminalRejectsMoves ==
    [][game_over =>
          /\ game_over'
          /\ ret'.op = "make_move" =>
                 /\ ret'.ok = FALSE
                 /\ ret'.error = "Game is over"
                 /\ UNCHANGED GameFields]_vars

\* C5 witness: a make_move call was rejected on a game that is over.
C5_Witness ==
    game_over /\ ret.op = "make_move" /\ ~ret.ok /\ ret.error = "Game is over"

\* The landed piece of `move` has a further capture on the board after the step.
FurtherCaptureAfter(move) ==
    \E m \in get_valid_moves(board_state', current_player, move.to_pos) : is_capture(m)

\* C6: after a legal capturing move whose landed piece has a further capture
\* from the landing square, the same player is to move, the chain marker is
\* the landing square, the move info reports chain_capture_available, and
\* every move offered starts from the landing square.
C6_ChainContinues ==
    [][\A move \in GetAllValidMoves :
          (~game_over /\ is_capture(move) /\ make_move(move) /\ FurtherCaptureAfter(move))
              => /\ current_player' = current_player
                 /\ capture_sequence' = TRUE
                 /\ capturing_piece' = move.to_pos
                 /\ ret'.ok /\ ret'.chain_capture_available
                 /\ \A m \in GetAllValidMoves' : m.from_pos = move.to_pos]_vars

\* C6 witness: a capture has just been applied and its chain continues, with
\* a capture on offer from the landing square.
C6_Witness ==
    /\ ret.op = "make_move" /\ ret.ok /\ ret.is_capture /\ ret.chain_capture_available
    /\ capture_sequence /\ capturing_piece # NoPos
    /\ \E m \in GetAllValidMoves : is_capture(m) /\ m.from_pos = capturing_piece

\* C8: when make_move completes a turn with both kings on the board, one
\* player holding exactly one piece and the other more than one, the game is
\* over, won by the player with more than one piece, by lone king.
C8_LoneKingWin ==
    \A player \in Player :
        (TurnCompleted /\ KingOnBoard(P1) /\ KingOnBoard(P2) /\ LoneKing(player))
            => (game_over /\ winner = opponent(player) /\ win_reason = LONE_KING)

\* C8 witness: Player 2 has been reduced to the king while Player 1 has three
\* pieces, by the capture that completed the last turn.
C8_Witness ==
    /\ TurnCompleted /\ ret.is_capture
    /\ KingOnBoard(P1) /\ KingOnBoard(P2)
    /\ PiecesOnBoard(P2) = 1 /\ PiecesOnBoard(P1) = 3
    /\ game_over /\ winner = P1

\* None of king capture, kings-only draw, lone king and move limit applies.
NoEarlierCondition ==
    /\ KingOnBoard(P1) /\ KingOnBoard(P2)
    /\ ~KingsOnly /\ ~LoneKing(P1) /\ ~LoneKing(P2)
    /\ move_count < MoveLimit

\* C9: when make_move completes a turn and none of the four earlier
\* conditions applies, the game is over by stalemate, won by the player who
\* just moved, if the player now to move has no legal move, and stays active
\* if that player has one.
C9_Stalemate ==
    (TurnCompleted /\ NoEarlierCondition) =>
        IF GetAllValidMoves = {}
        THEN game_over /\ winner = opponent(current_player) /\ win_reason = STALEMATE
        ELSE ~game_over

\* C9 witness: a completed turn left the player to move without a legal move
\* while no earlier condition applies.
C9_Witness ==
    TurnCompleted /\ NoEarlierCondition /\ GetAllValidMoves = {} /\ game_over

\* The five conditions in their fixed order, and the outcome of each.
Matches(i, a) ==
    CASE i = 1 -> ~a.p1_king_exists \/ ~a.p2_king_exists
      [] i = 2 -> a.p1_pieces_count = 1 /\ a.p2_pieces_count = 1
      [] i = 3 -> \/ a.p1_pieces_count = 1 /\ a.p2_pieces_count > 1
                  \/ a.p2_pieces_count = 1 /\ a.p1_pieces_count > 1
      [] i = 4 -> a.move_count >= MoveLimit
      [] i = 5 -> ~a.has_valid_moves

Outcome(i, a) ==
    CASE i = 1 -> <<IF ~a.p1_king_exists THEN P2 ELSE P1, KING_CAPTURE>>
      [] i = 2 -> <<NoPlayer, KINGS_ONLY_DRAW>>
      [] i = 3 -> <<IF a.p1_pieces_count = 1 THEN P2 ELSE P1, LONE_KING>>
      [] i = 4 -> <<NoPlayer, MOVE_LIMIT>>
      [] i = 5 -> <<opponent(a.current_player), STALEMATE>>

Matching(a) == {i \in 1..5 : Matches(i, a)}

\* C10: check_win_condition returns the outcome of the first condition that
\* matches, in the order king capture, kings-only draw, lone king, move limit,
\* stalemate, and (none, none) only when none matches.
C10_FirstMatchWins ==
    (probe # NoProbe /\ probe.result # <<>>) =>
        LET a == probe.args
        IN  /\ Matching(a) # {} =>
                  \E i \in Matching(a) :
                      /\ \A j \in Matching(a) : i <= j
                      /\ probe.result = Outcome(i, a)
            /\ (probe.result = <<NoPlayer, NoReason>>) <=> (Matching(a) = {})

\* C10 witness: lone king, move limit and stalemate all match, and the result
\* is the lone-king win.
C10_Witness ==
    /\ probe # NoProbe /\ probe.result = <<P2, LONE_KING>>
    /\ Matching(probe.args) = {3, 4, 5}

\* C11: in every non-terminal state reached by legal moves, every move that
\* get_all_valid_moves() offers validates against the current board: from_pos
\* holds a piece of the player to move; a non-capturing move passes
\* is_valid_regular_move (to_pos on the board, empty, a neighbor of from_pos,
\* forward for the mover); a capturing move passes is_valid_capture_move
\* (capture_pos a neighbor holding an enemy piece of no higher rank, to_pos the
\* computed landing, on the board and empty).
C11_OfferedMovesRevalidate ==
    ~game_over =>
        \A m \in GetAllValidMoves :
            LET piece == PieceAt(board_state, m.from_pos)
                target == PieceAt(board_state, m.capture_pos)
            IN  /\ m.from_pos \in DOMAIN nodes
                /\ piece * current_player > 0
                /\ m.to_pos \in DOMAIN nodes
                /\ PieceAt(board_state, m.to_pos) = EMPTY
                /\ IF m.capture_pos = NoPos
                   THEN /\ is_valid_regular_move(m.from_pos, m.to_pos, piece, board_state)
                        /\ m.to_pos \in Range(nodes[m.from_pos])
                        /\ (m.to_pos[1] - m.from_pos[1]) * current_player < 0
                   ELSE /\ is_valid_capture_move(m.from_pos, m.capture_pos, m.to_pos,
                                                 piece, target, board_state)
                        /\ m.capture_pos \in Range(nodes[m.from_pos])
                        /\ target * piece < 0
                        /\ Abs(piece) >= Abs(target)
                        /\ m.to_pos = calculate_capture_landing(m.from_pos, m.capture_pos)

\* C11 witness: after two moves an active game offers both a step and a
\* capture.
C11_Witness ==
    /\ ~game_over /\ move_count >= 2
    /\ \E m \in GetAllValidMoves : m.capture_pos = NoPos
    /\ \E m \in GetAllValidMoves : m.capture_pos # NoPos

\* C12: after make_move applies a legal non-capturing move, or a legal capture
\* after which the landed piece has no further capture, the chain marker is
\* cleared, the opponent of the mover is to move, and the terminal evaluation
\* of the resulting position has been applied: when it names a winner the
\* game is over with that winner and reason.
C12_TurnEnds ==
    [][\A move \in GetAllValidMoves :
          (/\ ~game_over
           /\ make_move(move)
           /\ (move.capture_pos = NoPos \/ ~FurtherCaptureAfter(move)))
              => /\ ret'.ok /\ ~ret'.chain_capture_available
                 /\ capture_sequence' = FALSE
                 /\ capturing_piece' = NoPos
                 /\ current_player' = opponent(current_player)
                 /\ LET result == check_game_state(Self', current_player', move_count')
                    IN  Truthy(result[1]) =>
                            /\ game_over'
                            /\ winner' = result[1]
                            /\ win_reason' = result[2]]_vars

\* C12 witness: a capture whose landed piece could still step forward, but not
\* capture, has ended the turn.
C12_Witness ==
    /\ ret.op = "make_move" /\ ret.ok /\ ret.is_capture /\ ~ret.chain_capture_available
    /\ ~capture_sequence /\ capturing_piece = NoPos
    /\ \E pos \in DOMAIN board_state :
           /\ board_state[pos] = ret.piece_moved
           /\ \E m \in get_valid_moves(board_state, opponent(current_player), pos) :
                  m.capture_pos = NoPos

\* C13: a legal non-capturing move succeeds, leaves from_pos empty and to_pos
\* holding the piece type that was at from_pos, and changes no other
\* position: the key set and every other entry of board_state are the same.
C13_StepRelocatesPiece ==
    [][\A move \in GetAllValidMoves :
          (~game_over /\ move.capture_pos = NoPos /\ make_move(move))
              => /\ ret'.ok
                 /\ DOMAIN board_state' = DOMAIN board_state
                 /\ board_state'[move.from_pos] = EMPTY
                 /\ board_state[move.from_pos] # EMPTY
                 /\ board_state'[move.to_pos] = board_state[move.from_pos]
                 /\ \A pos \in DOMAIN board_state \ {move.from_pos, move.to_pos} :
                        board_state'[pos] = board_state[pos]
                 /\ PiecesOnBoard(P1)' = PiecesOnBoard(P1)
                 /\ PiecesOnBoard(P2)' = PiecesOnBoard(P2)]_vars

\* C13 witness: a non-capturing move has been applied and move_count went up.
C13_Witness ==
    /\ ret.op = "make_move" /\ ret.ok /\ ~ret.is_capture
    /\ ret.piece_moved # EMPTY /\ move_count >= 1
    /\ \E pos \in DOMAIN board_state : board_state[pos] = ret.piece_moved

\* C14: a legal capturing move empties capture_pos, takes exactly one piece
\* from the opponent and none from the mover, moves the capturing piece from
\* from_pos to to_pos with its type unchanged, and reports is_capture together
\* with the type of the captured piece.
C14_CaptureRemovesOnePiece ==
    [][\A move \in GetAllValidMoves :
          (~game_over /\ move.capture_pos # NoPos /\ make_move(move))
              => \A mover \in {current_player}, captured \in {board_state[move.capture_pos]} :
                     /\ board_state'[move.capture_pos] = EMPTY
                     /\ board_state'[move.from_pos] = EMPTY
                     /\ board_state'[move.to_pos] = board_state[move.from_pos]
                     /\ board_state[move.from_pos] * mover > 0
                     /\ PiecesOnBoard(opponent(mover))' = PiecesOnBoard(opponent(mover)) - 1
                     /\ PiecesOnBoard(mover)' = PiecesOnBoard(mover)
                     /\ Cardinality(p1_pieces') + Cardinality(p2_pieces')
                            = Cardinality(p1_pieces) + Cardinality(p2_pieces) - 1
                     /\ Cardinality(IF mover = P1 THEN p1_pieces' ELSE p2_pieces')
                            = Cardinality(IF mover = P1 THEN p1_pieces ELSE p2_pieces)
                     /\ ret'.ok /\ ret'.is_capture
                     /\ ret'.captured_piece = <<captured>>
                     /\ captured * mover < 0
                     /\ ret'.piece_moved = board_state[move.from_pos]]_vars

\* C14 witness: a capture by a prince has been applied and reported.
C14_Witness ==
    /\ ret.op = "make_move" /\ ret.ok /\ ret.is_capture
    /\ Abs(ret.piece_moved) = 2
    /\ ret.captured_piece # <<>> /\ ret.captured_piece[1] * ret.piece_moved < 0

\* C15: after any sequence of add_piece, remove_piece, clear_board,
\* setup_custom_position and make_move calls, a position is in p1_pieces iff
\* board_state holds a Player-1 piece there, is in p2_pieces iff board_state
\* holds a Player-2 piece there, and the two sets are disjoint.
C15_PieceSetsMatchBoard ==
    /\ p1_pieces = {pos \in DOMAIN board_state : board_state[pos] > 0}
    /\ p2_pieces = {pos \in DOMAIN board_state : board_state[pos] < 0}
    /\ p1_pieces \cap p2_pieces = {}

\* C15 witness: two editing calls were made, the last one a remove_piece that
\* took a piece off, and both players are still tracked.
C15_Witness ==
    /\ edits = 2 /\ ret.op = "remove_piece" /\ ret.piece_moved # EMPTY
    /\ p1_pieces # {} /\ p2_pieces # {}

\* C16: for every game, however constructed and after any sequence of
\* add_piece, remove_piece and make_move calls, the key set of board_state is
\* exactly the set of positions of the board graph.
C16_BoardKeysAreGraphPositions ==
    DOMAIN board_state = DOMAIN nodes

\* A graph has been built and is held in probe.result.
GraphBuilt == probe # NoProbe /\ probe.fn = "create_board_graph" /\ probe.result # <<>>

\* C17: for every board size the configuration accepts, the graph built by
\* _create_board_graph is symmetric (B is in the neighbor list of A iff A is
\* in the neighbor list of B), every neighbor is a position of the graph, and
\* no position is its own neighbor.
C17_GraphSymmetric ==
    GraphBuilt =>
        LET g == probe.result
        IN  /\ \A a \in DOMAIN g : a \notin Range(g[a]) /\ Range(g[a]) \subseteq DOMAIN g
            /\ \A a \in DOMAIN g : \A b \in DOMAIN g :
                   (b \in Range(g[a])) <=> (a \in Range(g[b]))

\* C17 witness: the graph of the default 6 x 5 board has been built, with the
\* corner (0, 0) and the secondary position (0.5, 0.5) in each other's lists.
C17_Witness ==
    /\ GraphBuilt /\ probe.rows = 6 /\ probe.cols = 5
    /\ <<1, 1>> \in Range(probe.result[<<0, 0>>])
    /\ <<0, 0>> \in Range(probe.result[<<1, 1>>])

\* Position p lies on a rows x cols board: a primary position within the
\* rows and columns, or a secondary position inside one of its cells.
OnBoard(rows, cols, p) ==
    \/ /\ p[1] % 2 = 0 /\ p[2] % 2 = 0
       /\ 0 <= p[1] /\ p[1] <= 2 * (rows - 1)
       /\ 0 <= p[2] /\ p[2] <= 2 * (cols - 1)
    \/ /\ p[1] % 2 = 1 /\ p[2] % 2 = 1
       /\ 1 <= p[1] /\ p[1] <= 2 * rows - 3
       /\ 1 <= p[2] /\ p[2] <= 2 * cols - 3

\* The positions one orthogonal step (primary) or half a diagonal step away.
Orthogonal(a) == {<<a[1] - 2, a[2]>>, <<a[1] + 2, a[2]>>, <<a[1], a[2] - 2>>, <<a[1], a[2] + 2>>}

Diagonal(a) ==
    {<<a[1] - 1, a[2] - 1>>, <<a[1] - 1, a[2] + 1>>, <<a[1] + 1, a[2] - 1>>, <<a[1] + 1, a[2] + 1>>}

\* C18: for a rows x cols board the graph has exactly rows*cols primary and
\* (rows-1)*(cols-1) secondary positions; the neighbors of a primary position
\* are exactly its on-board orthogonal primary and diagonal secondary
\* positions (at most 8), those of a secondary position exactly its on-board
\* diagonal primary positions (at most 4, never a secondary one); no neighbor
\* is listed twice.
C18_GraphShape ==
    GraphBuilt =>
        LET g == probe.result
            rows == probe.rows
            cols == probe.cols
            primary == {a \in DOMAIN g : a[1] % 2 = 0 /\ a[2] % 2 = 0}
            secondary == DOMAIN g \ primary
        IN  /\ Cardinality(primary) = rows * cols
            /\ Cardinality(secondary) = (rows - 1) * (cols - 1)
            /\ \A a \in DOMAIN g : OnBoard(rows, cols, a)
            /\ \A a \in DOMAIN g : Len(g[a]) = Cardinality(Range(g[a]))
            /\ \A a \in primary :
                   /\ Range(g[a]) = {b \in Orthogonal(a) \cup Diagonal(a) : OnBoard(rows, cols, b)}
                   /\ Len(g[a]) <= 8
            /\ \A a \in secondary :
                   /\ Range(g[a]) = {b \in Diagonal(a) : OnBoard(rows, cols, b)}
                   /\ Range(g[a]) \cap secondary = {}
                   /\ Len(g[a]) <= 4

\* C18 witness: on a built 10 x 3 board a corner has 3 neighbors, an edge
\* position 5, an inner position 8 and a secondary position 4.
C18_Witness ==
    /\ GraphBuilt /\ probe.rows = 10 /\ probe.cols = 3
    /\ Cardinality(DOMAIN probe.result) = 30 + 18
    /\ Len(probe.result[<<0, 0>>]) = 3
    /\ Len(probe.result[<<0, 2>>]) = 5
    /\ Len(probe.result[<<2, 2>>]) = 8
    /\ Len(probe.result[<<17, 3>>]) = 4

\* The (attacker rank, target rank) pairs of the capture hierarchy: Warrior
\* (1) takes Warrior, Prince (2) takes Warrior and Prince, King (3) takes any.
CaptureHierarchy == {<<1, 1>>, <<2, 1>>, <<2, 2>>, <<3, 1>>, <<3, 2>>, <<3, 3>>}

\* Owner of a piece type: P1, P2, or NoPlayer for Empty.
OwnerOf(piece) == IF piece > 0 THEN P1 ELSE IF piece < 0 THEN P2 ELSE NoPlayer

\* C19: for every pair of piece types, can_capture(attacker, target) is true
\* iff both are non-empty, their owners differ and the attacker's rank is at
\* least the target's (the pair of ranks is in the capture hierarchy).
C19_CanCaptureByRank ==
    (probe # NoProbe /\ probe.fn = "can_capture" /\ probe.result # <<>>) =>
        LET attacker == probe.args[1]
            target == probe.args[2]
        IN  probe.result[1] <=>
                /\ attacker # EMPTY /\ target # EMPTY
                /\ OwnerOf(attacker) # OwnerOf(target)
                /\ Abs(attacker) >= Abs(target)
                /\ <<Abs(attacker), Abs(target)>> \in CaptureHierarchy

\* C19 witness: a Player-2 prince was found able to capture a Player-1 prince.
C19_Witness ==
    /\ probe # NoProbe /\ probe.fn = "can_capture"
    /\ probe.args = <<P2_PRINCE, P1_PRINCE>> /\ probe.result = <<TRUE>>

\* C20: for every pair of graph-adjacent positions (from, captured),
\* calculate_capture_landing returns captured + (captured - from): a single
\* position fixed by the pair, on the line from `from` through `captured`,
\* beyond `captured`, and strictly farther from `from` than `captured` is.
C20_LandingBeyondCaptured ==
    (probe # NoProbe /\ probe.fn = "calculate_capture_landing" /\ probe.result # <<>>) =>
        LET from == probe.args[1]
            captured == probe.args[2]
            landing == probe.result[1]
            d1 == captured[1] - from[1]
            d2 == captured[2] - from[2]
            l1 == landing[1] - from[1]
            l2 == landing[2] - from[2]
        IN  /\ landing = <<captured[1] + d1, captured[2] + d2>>
            /\ l1 * d2 = l2 * d1
            /\ (landing[1] - captured[1]) * d1 + (landing[2] - captured[2]) * d2 > 0
            /\ l1 * l1 + l2 * l2 > d1 * d1 + d2 * d2

\* C20 witness: the landing of a diagonal jump from the secondary position
\* (0.5, 0.5) over the primary position (1, 1) is (1.5, 1.5).
C20_Witness ==
    /\ probe # NoProbe /\ probe.fn = "calculate_capture_landing"
    /\ probe.args = << <<1, 1>>, <<2, 2>> >> /\ probe.result = << <<3, 3>> >>

\* C21: for every board, position and neighbor of it, the list built by
\* get_valid_moves holds at most one move attributable to that neighbor (a
\* regular move onto it or a capture over it, never both), every move of the
\* list is attributable to a neighbor, and is_capture is true of a move iff
\* its capture_pos is present.
C21_OneMovePerNeighbor ==
    \A pos \in DOMAIN nodes :
        LET moves == get_valid_moves_list(board_state, current_player, pos)
            For(n) == {i \in DOMAIN moves :
                          \/ moves[i].capture_pos = NoPos /\ moves[i].to_pos = n
                          \/ moves[i].capture_pos = n}
        IN  /\ \A n \in Range(nodes[pos]) : Cardinality(For(n)) <= 1
            /\ \A i \in DOMAIN moves : \E n \in Range(nodes[pos]) : i \in For(n)
            /\ \A i \in DOMAIN moves : is_capture(moves[i]) <=> moves[i].capture_pos # NoPos
            /\ Range(moves) = get_valid_moves(board_state, current_player, pos)

\* C21 witness: after a move, one piece has both a step and a capture to
\* offer, over different neighbors.
C21_Witness ==
    /\ move_count >= 1
    /\ \E pos \in DOMAIN nodes :
           LET moves == get_valid_moves_list(board_state, current_player, pos)
           IN  /\ \E i \in DOMAIN moves : moves[i].capture_pos = NoPos
               /\ \E i \in DOMAIN moves : moves[i].capture_pos # NoPos

\* C22: move_count never decreases: every successful make_move, each step of
\* a capture chain included, adds exactly 1, and a make_move that returns
\* failure leaves it unchanged.
C22_MoveCountSteps ==
    [][/\ move_count' >= move_count
       /\ \A move \in GetAllValidMoves :
              make_move(move) =>
                  /\ ret'.ok => move_count' = move_count + 1
                  /\ ~ret'.ok => move_count' = move_count]_vars

\* C22 witness: the second capture of a chain has been applied and counted.
C22_Witness ==
    /\ ret.op = "make_move" /\ ret.ok /\ ret.is_capture
    /\ PiecesOnBoard(P1) + PiecesOnBoard(P2) = 3
    /\ move_count = 2 /\ current_player = P2

\* The legal moves of the game get_move was called with, in SpecAI the game
\* as it stands, and the squares of the side to move.
MoverPieces == IF current_player = P1 THEN p1_pieces ELSE p2_pieces

GetMoveReturned == ret.op = "get_move"

\* C23: for an active game get_move returns none exactly when the game has no
\* legal move, and otherwise a move out of game.get_all_valid_moves(), in the
\* random branch as well as in the scored one.
C23_ReturnsLegalMoveOrNone ==
    [][ret'.op = "get_move" =>
          /\ ~game_over
          /\ (probe'.move = NoMove) <=> (GetAllValidMoves = {})
          /\ probe'.move # NoMove => probe'.move \in GetAllValidMoves
          /\ probe'.branch \in {"none", "random", "scored"}]_vars

\* C23 witness: get_move has answered from the random branch for a game that
\* offers several legal moves, with one of them.
C23_Witness ==
    /\ GetMoveReturned
    /\ probe.branch = "random"
    /\ Cardinality(GetAllValidMoves) >= 2
    /\ probe.move \in GetAllValidMoves

\* C24: get_move leaves the game it is given as it was: board_state, both
\* piece sets, current_player, move_count, capture_sequence, capturing_piece,
\* game_over, winner and win_reason; only the player's cache and counters
\* change.
C24_GetMoveLeavesGame ==
    [][ret'.op = "get_move" =>
          /\ UNCHANGED GameFields
          /\ npc'.player_id = npc.player_id
          /\ npc'.settings = npc.settings]_vars

\* C24 witness: get_move has scored the moves of a game, a capture among
\* them, and has added to its cache.
C24_Witness ==
    /\ GetMoveReturned
    /\ probe.branch = "scored"
    /\ \E i \in DOMAIN probe.move_scores : is_capture(probe.move_scores[i].move)
    /\ npc.threat_cache # {}

\* The position after a move, as make_move leaves it.
PositionAfter(move) ==
    LET b1 == add_piece(remove_piece(Self, move.from_pos), move.to_pos,
                        board_state[move.from_pos])
    IN  IF is_capture(move) THEN remove_piece(b1, move.capture_pos) ELSE b1

\* In position b the player has a legal capture that takes the piece on pos.
CanBeCaptured(b, player, pos) ==
    \E m \in get_all_valid_moves(b, player, FALSE, NoPos) :
        is_capture(m) /\ m.capture_pos = pos

\* The move passes the turn and leaves the game going: no chain follows and
\* _check_game_state finds neither a winner nor a draw.
LeavesGameActive(move) ==
    /\ ~(is_capture(move)
          /\ additional_captures(PositionAfter(move), current_player, move) # {})
    /\ check_game_state(PositionAfter(move), opponent(current_player), move_count + 1)
           = <<NoPlayer, NoReason>>

\* C25: when get_move scores a move of its own side that leaves its king on
\* the board and the game going, and the opponent then has a legal capture
\* of the king, the king safety term of that move is the capture-danger
\* penalty.
C25_KingCaptureDangerPenalised ==
    (GetMoveReturned /\ probe.branch = "scored" /\ npc.player_id = current_player) =>
        \A i \in DOMAIN probe.move_scores :
            LET e == probe.move_scores[i]
                after == PositionAfter(e.move)
                king_pos == get_king_position(after, npc.player_id)
            IN  (/\ king_pos # NoPos
                 /\ LeavesGameActive(e.move)
                 /\ CanBeCaptured(after, npc.opponent_id, king_pos))
                    => e.king_safety = king_safety.capture_danger_penalty

\* The place of the returned move in the sorted list of scored moves.
ReturnedRank == CHOOSE i \in DOMAIN probe.move_scores : probe.move_scores[i].move = probe.move

\* C26: in the scored branch fewer than top_moves_count legal moves score
\* strictly higher than the returned move, and when there are at most
\* top_moves_count legal moves each of them is returned for some draw.
C26_ReturnsOneOfTopMoves ==
    (GetMoveReturned /\ probe.branch = "scored") =>
        /\ Cardinality({i \in DOMAIN probe.move_scores :
                           probe.move_scores[i].score > probe.move_scores[ReturnedRank].score})
               < move_selection.top_moves_count
        /\ Len(probe.valid_moves) <= move_selection.top_moves_count =>
               \A i \in DOMAIN probe.valid_moves : \E draw \in Draws :
                   get_move(npc, board_state, probe.valid_moves,
                            <<probe.draws[1], draw>>).move = probe.valid_moves[i]

\* C26 witness: more legal moves than top_moves_count were scored, not all
\* alike, and the returned move is not the first of the sorted list.
C26_Witness ==
    /\ GetMoveReturned
    /\ probe.branch = "scored"
    /\ Len(probe.move_scores) > move_selection.top_moves_count
    /\ probe.move_scores[1].score > probe.move_scores[Len(probe.move_scores)].score
    /\ ReturnedRank > 1

\* C27: every _get_threat_level call adds one to exactly one of the two
\* counters; a call whose key is in the cache is a hit; the value returned is
\* the value a computation without cache gives; the key is in the cache after
\* the call, and entries stay until clear_cache, so that every later call
\* with the key is a hit.
C27_CacheTransparent ==
    [][/\ ret'.op = "get_threat_level" =>
            \A key \in {probe'.key} :
               /\ npc'.threat_cache_hits + npc'.threat_cache_misses
                      = npc.threat_cache_hits + npc.threat_cache_misses + 1
               /\ npc'.threat_cache_hits >= npc.threat_cache_hits
               /\ npc'.threat_cache_misses >= npc.threat_cache_misses
               /\ Cached(npc, key) => npc'.threat_cache_hits = npc.threat_cache_hits + 1
               /\ probe'.value
                      = get_threat_level(clear_cache(npc), key[1], key[2], key[3]).value
               /\ Cached(npc', key)
       /\ ret'.op # "clear_cache" =>
            \A e \in npc.threat_cache : e \in npc'.threat_cache]_vars

\* C27 witness: a _get_threat_level call has been answered from the cache.
C27_Witness ==
    /\ ret.op = "get_threat_level"
    /\ npc.threat_cache_hits >= 1
    /\ npc.threat_cache_misses >= 1
    /\ Cached(npc, probe.key)

\* C28: with randomness 0 the move get_move returns for its own side depends
\* only on the board contents, the player to move, the chain marker, the
\* profile and the draws: not on the order in which the game lists its
\* moves, nor on the cache.
C28_SameInputsSameMove ==
    (GetMoveReturned /\ npc.settings.randomness = 0 /\ npc.player_id = current_player) =>
        \A order \in IterationOrders(MoverPieces) :
        \A cache \in {{}, npc.threat_cache} :
            get_move([npc EXCEPT !.threat_cache = cache], board_state,
                     get_all_valid_moves_list(board_state, current_player,
                                              capture_sequence, capturing_piece, order),
                     probe.draws).move = probe.move

\* C29: while a capture chain is active get_valid_moves returns no moves for
\* any position other than the continuing piece's square.
C29_ChainSilencesOtherPieces ==
    capture_sequence =>
        \A pos \in DOMAIN nodes \ {capturing_piece} :
            get_valid_moves_list(board_state, current_player, pos) = <<>>

\* The row of `to` lies strictly forward of the row of `from` for player.
StrictlyForward(player, from, to) ==
    IF player = P1 THEN to[1] < from[1] ELSE to[1] > from[1]

\* The moves the rules give the piece at pos, read off the board: a step to
\* each empty neighbor strictly forward, a jump over each neighbor holding an
\* enemy piece of no higher rank onto the empty on-board square beyond it.
ExpectedMoves(pos) ==
    LET piece == board_state[pos]
    IN  {Move(pos, n, NoPos) : n \in
            {n \in Range(nodes[pos]) :
                board_state[n] = EMPTY /\ StrictlyForward(current_player, pos, n)}}
        \cup
        {Move(pos, <<2 * n[1] - pos[1], 2 * n[2] - pos[2]>>, n) : n \in
            {n \in Range(nodes[pos]) :
                /\ board_state[n] * piece < 0
                /\ Abs(piece) >= Abs(board_state[n])
                /\ <<2 * n[1] - pos[1], 2 * n[2] - pos[2]>> \in DOMAIN nodes
                /\ board_state[<<2 * n[1] - pos[1], 2 * n[2] - pos[2]>>] = EMPTY}}

\* C30: outside a capture chain get_valid_moves(pos) returns, for a piece of
\* the player to move, exactly the expected moves, each once (steps strictly
\* forward only, captures in any direction), and nothing for an empty square
\* or an opponent's piece.
C30_ValidMovesExact ==
    ~capture_sequence =>
        \A pos \in DOMAIN nodes :
            LET moves == get_valid_moves_list(board_state, current_player, pos)
            IN  IF board_state[pos] * current_player > 0
                THEN /\ Range(moves) = ExpectedMoves(pos)
                     /\ Len(moves) = Cardinality(ExpectedMoves(pos))
                ELSE moves = <<>>

\* C30 witness: outside a chain a piece of the player to move is offered a
\* capture that lands backward while an empty neighbor on its own row is not
\* offered as a step.
C30_Witness ==
    /\ ~capture_sequence /\ move_count >= 1
    /\ \E pos \in DOMAIN nodes :
           LET moves == get_valid_moves_list(board_state, current_player, pos)
           IN  /\ board_state[pos] * current_player > 0
               /\ \E i \in DOMAIN moves :
                      /\ moves[i].capture_pos # NoPos
                      /\ StrictlyForward(opponent(current_player), pos, moves[i].to_pos)
               /\ \E n \in Range(nodes[pos]) :
                      /\ board_state[n] = EMPTY /\ n[1] = pos[1]
                      /\ Move(pos, n, NoPos) \notin Range(moves)

\* C31: for every legal move of an active game, the board that
\* _simulate_move_on_board returns is the mapping the game holds after
\* make_move, over the same positions, the vacated square present and empty.
C31_SimulationMatchesMakeMove ==
    ~game_over =>
        \A move \in GetAllValidMoves :
            /\ simulate_move_on_board(board_state, move).new_board
                   = PositionAfter(move).board_state
            /\ move.from_pos \in DOMAIN simulate_move_on_board(board_state, move).new_board

\* The non-empty squares of a board as a pieces argument for
\* setup_custom_position.
RECURSIVE PiecesOf(_, _)
PiecesOf(bs, squares) ==
    IF squares = {} THEN <<>>
    ELSE LET pos == CHOOSE pos \in squares : TRUE
         IN  <<<<bs[pos], pos>>>> \o PiecesOf(bs, squares \ {pos})

\* A regular game holding the contents of the current board.
RegularGame ==
    setup_custom_position(setup_initial_pieces(<<>>),
                          PiecesOf(board_state,
                                   {pos \in DOMAIN board_state : board_state[pos] # EMPTY}))

\* C32: a throwaway game made by _create_temp_game_state from the board and
\* a player to move answers get_all_valid_moves() with the same moves as a
\* regular game set up with the same contents, the same player to move and
\* no chain.
C32_TempGameAnswersAsRegular ==
    \A player \in Player :
        TempMoves(create_temp_game_state(board_state, player))
            = get_all_valid_moves(RegularGame, player, FALSE, NoPos)

\* C33: when the player scores the moves of its own side, the chain-capture
\* bonus is added to a move exactly when make_move of that move would report
\* chain_capture_available: the move is a capture and the landed piece has a
\* further capture from the landing square.
C33_ChainBonusMatchesMakeMove ==
    (GetMoveReturned /\ probe.branch = "scored" /\ npc.player_id = current_player) =>
        \A i \in DOMAIN probe.move_scores :
            \A e \in {probe.move_scores[i]} :
                e.chain_bonus <=>
                    (/\ is_capture(e.move)
                     /\ additional_captures(PositionAfter(e.move), current_player, e.move) # {})

\* C33 witness: the player has scored the moves of its own side, among them
\* a capture that got the bonus and a move that did not.
C33_Witness ==
    /\ GetMoveReturned /\ probe.branch = "scored" /\ npc.player_id = current_player
    /\ \E i, j \in DOMAIN probe.move_scores :
           /\ is_capture(probe.move_scores[i].move) /\ probe.move_scores[i].chain_bonus
           /\ ~probe.move_scores[j].chain_bonus

\* C34: after a capture from square A that leaves a chain active, no move
\* offered by get_all_valid_moves() lands on A, and the landed piece has a
\* capture whose landing square is not A.
C34_ChainNeverReturnsToStart ==
    [][\A move \in GetAllValidMoves :
          (~game_over /\ is_capture(move) /\ make_move(move) /\ capture_sequence')
              => /\ \A m \in GetAllValidMoves' : m.to_pos # move.from_pos
                 /\ \E m \in get_valid_moves(board_state', current_player', move.to_pos) :
                        is_capture(m) /\ m.to_pos # move.from_pos]_vars

\* C34 witness: a chain is active after a capture, and the continuing piece
\* is offered a move.
C34_Witness ==
    /\ ret.op = "make_move" /\ ret.ok /\ ret.is_capture
    /\ capture_sequence /\ ~game_over
    /\ GetAllValidMoves # {}

\* The chain marker as a state shows it.
ChainMarkerSound ==
    /\ capture_sequence <=> capturing_piece # NoPos
    /\ capturing_piece # NoPos =>
           /\ ~game_over
           /\ capturing_piece \in DOMAIN board_state
           /\ PieceAt(board_state, capturing_piece) * current_player > 0
           /\ capturing_piece \in (IF current_player = P1 THEN p1_pieces ELSE p2_pieces)
           /\ \E m \in get_valid_moves(board_state, current_player, capturing_piece) :
                  is_capture(m)

\* C35: capture_sequence is true exactly when capturing_piece is set, and
\* whenever it is set the game is not over, the square holds a piece of
\* current_player, that piece is the one the preceding make_move moved (the
\* marker is the landing square of the move just applied), and it has a legal
\* capture.
C35_ChainMarkerConsistent ==
    /\ ChainMarkerSound
    /\ [][/\ ChainMarkerSound'
          /\ capturing_piece' # NoPos =>
                 /\ ret'.op = "make_move" /\ ret'.ok
                 /\ ret'.piece_moved = PieceAt(board_state', capturing_piece')
                 /\ \E move \in GetAllValidMoves :
                        make_move(move) /\ move.to_pos = capturing_piece']_vars

\* C35 witness: the chain marker is set after a move.
C35_Witness ==
    capture_sequence /\ capturing_piece # NoPos /\ ret.op = "make_move" /\ move_count > 0

\* C36: in every state reached by legal moves in which game_over is false,
\* get_all_valid_moves() is non-empty.
C36_ActiveGameHasMove ==
    ~game_over => GetAllValidMoves # {}

\* Play as the game loop drives it (performance.py run_single_game: while the
\* game is not over a move is asked for and applied): a legal move that can be
\* applied eventually is.
SpecPlay == Init /\ [][Next]_vars /\ WF_vars(MakeLegalMove)

\* C37: every play by legal moves reaches a state with game_over true, and
\* does so no later than the first completed turn at which move_count has
\* reached the move limit.
C37_PlayEndsTerminal ==
    /\ <>game_over
    /\ []((TurnCompleted /\ move_count >= MoveLimit) => game_over)

\* The piece a pieces argument gives for a position, Empty when it gives none.
GivenAt(pieces, pos) ==
    IF \E i \in DOMAIN pieces : pieces[i][2] = pos
    THEN pieces[CHOOSE i \in DOMAIN pieces : pieces[i][2] = pos][1]
    ELSE EMPTY

\* C38: on a game constructed with a layout or empty, setup_custom_position
\* with on-board positions leaves exactly the given non-empty pieces on the
\* board, every other position Empty, and the piece sets matching.
C38_CustomPositionExact ==
    [][\A pieces \in CustomPositions :
          (/\ \A i \in DOMAIN pieces : pieces[i][2] \in DOMAIN nodes
           /\ ret'.op = "setup_custom_position"
           /\ SetBoard(setup_custom_position(Self, pieces)))
              => /\ \A pos \in DOMAIN nodes \cup DOMAIN board_state' :
                        PieceAt(board_state', pos) = GivenAt(pieces, pos)
                 /\ p1_pieces' = {pos \in DOMAIN nodes : GivenAt(pieces, pos) > 0}
                 /\ p2_pieces' = {pos \in DOMAIN nodes : GivenAt(pieces, pos) < 0}]_vars

\* C39: in the front end, saving the state, making one legal move and loading
\* the saved state again restores board contents, piece sets, current player,
\* move counter, chain marker and terminal fields, so get_all_valid_moves()
\* offers the same moves as before the move.
C39_UndoRestoresGame ==
    [][\A move \in GetAllValidMoves :
          (/\ ~game_over
           /\ game_history' = Append(game_history, save_game_state)
           /\ make_move(move))
              => \A g \in {load_game_state(Game', game_history'[Len(game_history')])} :
                     /\ g.board_state = board_state
                     /\ g.p1_pieces = p1_pieces /\ g.p2_pieces = p2_pieces
                     /\ g.current_player = current_player
                     /\ g.move_count = move_count
                     /\ g.capture_sequence = capture_sequence
                     /\ g.capturing_piece = capturing_piece
                     /\ g.game_over = game_over /\ g.winner = winner
                     /\ g.win_reason = win_reason
                     /\ get_all_valid_moves(Board(g.board_state, g.p1_pieces, g.p2_pieces),
                                            g.current_player, g.capture_sequence,
                                            g.capturing_piece)
                            = GetAllValidMoves]_vars

\* The construction from the configuration in probe is complete.
Constructed == ret.op = "setup_initial_pieces"

\* C40: a game constructed from an accepted configuration is active with
\* Player 1 to move, move_count 0 and no chain, holds every configured
\* starting piece at its configured position, and has exactly one king of
\* each player on the board.
C40_ConstructedGameComplete ==
    Constructed =>
        /\ ~game_over /\ winner = NoPlayer
        /\ current_player = P1
        /\ move_count = 0
        /\ ~capture_sequence /\ capturing_piece = NoPos
        /\ \A i \in DOMAIN probe.config.setup :
               PieceAt(board_state, probe.config.setup[i][2]) = probe.config.setup[i][1]
        /\ Cardinality({pos \in DOMAIN board_state : board_state[pos] = P1_KING}) = 1
        /\ Cardinality({pos \in DOMAIN board_state : board_state[pos] = P2_KING}) = 1

====
